---------------------------- MODULE Spec2Model ----------------------------
(***************************************************************************)
(* Model of the chat synchronisation of chat_sync: the Celery task         *)
(* sync_chats_task (apps/sync/tasks.py), the engine SyncService            *)
(* (apps/sync/services/sync_service.py), the mock source                   *)
(* (apps/sync/services/external_api.py), the message store                 *)
(* (apps/sync/services/dynamodb.py), the deal listing                      *)
(* (apps/chats/views.py, apps/chats/models.py) and the handlers of the     *)
(* Telegram Business updates (apps/telegram/handlers.py).                  *)
(*                                                                         *)
(* Every database or cache operation of a task is one step; a task's       *)
(* in-memory objects (the SyncState instance, the page, existing_deal,     *)
(* the open transaction) are its local state.  The relational store is the *)
(* committed state; writes made inside transaction.atomic() stay in the    *)
(* task's transaction until the block exits.                               *)
(***************************************************************************)
EXTENDS Integers, Sequences, FiniteSets, TLC

(***************************************************************************)
(* Bounds of the model.                                                    *)
(***************************************************************************)
\* task invocations (distinct Celery task ids)
NumTasks == 2
\* largest total_chats of the mock source
MaxChats == 3
\* largest page_size of the mock source
MaxPageSize == 2
\* the length of the cursors handed to _decode_cursor
MaxCursorLen == 4
\* the page numbers encoded and decoded again
MaxPageNumber == 12
\* deliveries of business messages counted on one deal
MaxDeliveries == 2
\* injected faults per behaviour: failed fetches, failed record steps, failed
\* avatar uploads, crashes and max_date arguments without a UTC offset; or,
\* in their place, one expiry of the lock while its holder still runs
MaxFaults == 2

(***************************************************************************)
(* Program constants.                                                      *)
(***************************************************************************)
\* @shared_task(bind=True, max_retries=3)
MAX_RETRIES == 3
\* base_date of the mock source, in hours
BaseDate == 100

Tasks == 1..NumTasks
\* an absent cache key
NoLock == { }
\* None or '' where the code expects a cursor: both are falsy
NoCursor == << >>
\* None where the code expects a datetime; a datetime d is << d >>
NoDate == << >>
\* None or '' where the code expects a key or an id
NoKey == << >>

\* SyncState.Status
PENDING == "pending"
RUNNING == "running"
COMPLETED == "completed"
FAILED == "failed"
\* Deal.SyncStatus
DEAL_PENDING == "pending"
DEAL_COMPLETE == "complete"
DEAL_FAILED == "failed"

(***************************************************************************)
(* The cursor codec of the mock source: the page number in decimal,        *)
(* base64-encoded.  A cursor is a sequence of characters; the empty        *)
(* sequence is the blank cursor of a new SyncState.                        *)
(***************************************************************************)
B64Alphabet ==
    << "A","B","C","D","E","F","G","H","I","J","K","L","M","N","O","P",
       "Q","R","S","T","U","V","W","X","Y","Z","a","b","c","d","e","f",
       "g","h","i","j","k","l","m","n","o","p","q","r","s","t","u","v",
       "w","x","y","z","0","1","2","3","4","5","6","7","8","9","+","/" >>

\* str(page_num).encode('utf-8'): the ASCII codes of the decimal digits
RECURSIVE DigitBytes(_)
DigitBytes(n) ==
    IF n < 10 THEN << 48 + n >>
    ELSE Append(DigitBytes(n \div 10), 48 + (n % 10))

\* base64.b64encode of a byte sequence
RECURSIVE B64Encode(_)
B64Encode(bytes) ==
    IF Len(bytes) = 0 THEN << >>
    ELSE IF Len(bytes) = 1 THEN
        << B64Alphabet[(bytes[1] \div 4) + 1],
           B64Alphabet[((bytes[1] % 4) * 16) + 1], "=", "=" >>
    ELSE IF Len(bytes) = 2 THEN
        << B64Alphabet[(bytes[1] \div 4) + 1],
           B64Alphabet[((bytes[1] % 4) * 16) + (bytes[2] \div 16) + 1],
           B64Alphabet[((bytes[2] % 16) * 4) + 1], "=" >>
    ELSE
        << B64Alphabet[(bytes[1] \div 4) + 1],
           B64Alphabet[((bytes[1] % 4) * 16) + (bytes[2] \div 16) + 1],
           B64Alphabet[((bytes[2] % 16) * 4) + (bytes[3] \div 64) + 1],
           B64Alphabet[(bytes[3] % 64) + 1] >>
        \o B64Encode(SubSeq(bytes, 4, Len(bytes)))

\* _encode_cursor
EncodeCursor(page_num) == B64Encode(DigitBytes(page_num))

\* the value of a base64 character, or -1
B64Value(ch) ==
    IF \E k \in 1..64 : B64Alphabet[k] = ch
    THEN (CHOOSE k \in 1..64 : B64Alphabet[k] = ch) - 1
    ELSE -1

\* binascii.a2b_base64 as base64.b64decode calls it (validate=False): the
\* 6-bit values of the characters read.  A character outside the alphabet
\* is skipped; "=" ends the input once it completes a group of four and is
\* skipped otherwise; the input must not end inside a group.  vals are the
\* values read so far, pads the "=" seen since the last of them
RECURSIVE B64Data(_, _, _)
B64Data(chars, vals, pads) ==
    IF chars = << >>
    THEN [ vals |-> vals, ok |-> Len(vals) % 4 = 0 ]
    ELSE LET quad_pos == Len(vals) % 4
         IN  IF Head(chars) = "="
             THEN IF quad_pos >= 2 /\ quad_pos + pads + 1 >= 4
                  THEN [ vals |-> vals, ok |-> TRUE ]
                  ELSE B64Data(Tail(chars), vals,
                               IF quad_pos >= 2 THEN pads + 1 ELSE pads)
             ELSE IF B64Value(Head(chars)) < 0
             THEN B64Data(Tail(chars), vals, pads)
             ELSE B64Data(Tail(chars),
                          Append(vals, B64Value(Head(chars))), 0)

\* the bytes that groups of 6-bit values spell
RECURSIVE B64Bytes(_)
B64Bytes(vals) ==
    IF Len(vals) < 2 THEN << >>
    ELSE IF Len(vals) = 2
    THEN << (vals[1] * 4) + (vals[2] \div 16) >>
    ELSE IF Len(vals) = 3
    THEN << (vals[1] * 4) + (vals[2] \div 16),
            ((vals[2] % 16) * 16) + (vals[3] \div 4) >>
    ELSE << (vals[1] * 4) + (vals[2] \div 16),
            ((vals[2] % 16) * 16) + (vals[3] \div 4),
            ((vals[3] % 4) * 64) + vals[4] >>
         \o B64Bytes(SubSeq(vals, 5, Len(vals)))

\* base64.b64decode(cursor): the bytes, or << -1 >> for binascii.Error
B64Decode(chars) ==
    LET d == B64Data(chars, << >>, 0)
    IN  IF d.ok THEN B64Bytes(d.vals) ELSE << -1 >>

\* the characters int() strips: ASCII white space
IsSpace(b) == b \in (9..13) \cup (28..32)

IsDigit(b) == b \in 48..57

\* the number that digit bytes, with "_" between digits, spell
RECURSIVE DigitsValue(_)
DigitsValue(bytes) ==
    IF Len(bytes) = 0 THEN 0
    ELSE IF bytes[Len(bytes)] = 95
    THEN DigitsValue(SubSeq(bytes, 1, Len(bytes) - 1))
    ELSE (DigitsValue(SubSeq(bytes, 1, Len(bytes) - 1)) * 10)
         + (bytes[Len(bytes)] - 48)

\* int(decoded.decode('utf-8')): << n >>, or << >> when either call raises.
\* White space around the number is stripped, a sign may precede the
\* digits, single underscores may separate them.  A byte above 127 stands
\* for a character that is no ASCII digit: the call raises
ParseInt(bytes) ==
    IF \E k \in 1..Len(bytes) : bytes[k] < 0 \/ bytes[k] > 127 THEN << >>
    ELSE LET inner == { k \in 1..Len(bytes) : ~ IsSpace(bytes[k]) }
         IN  IF inner = { } THEN << >>
             ELSE LET lo == CHOOSE k \in inner : \A m \in inner : k <= m
                      hi == CHOOSE k \in inner : \A m \in inner : m <= k
                      signed == bytes[lo] \in { 43, 45 }
                      digits == SubSeq(bytes, IF signed THEN lo + 1 ELSE lo, hi)
                      n == Len(digits)
                  IN  IF /\ n > 0
                         /\ IsDigit(digits[1]) /\ IsDigit(digits[n])
                         /\ \A k \in 1..n : IsDigit(digits[k]) \/ digits[k] = 95
                         /\ \A k \in 1..(n - 1) :
                               ~ (digits[k] = 95 /\ digits[k + 1] = 95)
                      THEN << IF bytes[lo] = 45 THEN 0 - DigitsValue(digits)
                              ELSE DigitsValue(digits) >>
                      ELSE << >>

\* _decode_cursor: no cursor, or one whose decoding raises, is page 0.
\* decoded is the value of base64.b64decode(cursor), computed once, and v
\* the outcome of int() on it
DecodeCursor(c) ==
    IF c = NoCursor THEN 0
    ELSE CHOOSE page_num \in
             { IF v = << >> THEN 0 ELSE v[1] :
                 v \in { ParseInt(decoded) : decoded \in { B64Decode(c) } } } :
             TRUE

(***************************************************************************)
(* The mock source.                                                        *)
(***************************************************************************)
Min(a, b) == IF a < b THEN a ELSE b

\* _generate_chat: predictable data, newest first
GenerateChat(index) ==
    [ external_id |-> << "chat", index >>,
      customer |-> [ external_id |-> << "cust", index >>,
                     name |-> << "Customer", index >>,
                     avatar_url |-> << "avatars", index >> ],
      last_message |-> [ message_id |-> << "msg", index >>,
                         text |-> << "Message from customer", index >>,
                         created_at |-> BaseDate - index ] ]

\* (mutant) has_more is true up to and including the last record
GetChatsInclusive(api, c) ==
    LET page_num == DecodeCursor(c)
        start_idx == page_num * api.page_size
        end_idx == Min(start_idx + api.page_size, api.total_chats)
        has_more == end_idx <= api.total_chats
    IN  [ chats |-> [ k \in 1..(IF end_idx > start_idx
                                THEN end_idx - start_idx ELSE 0)
                      |-> GenerateChat(start_idx + k - 1) ],
          next_cursor |-> IF has_more THEN EncodeCursor(page_num + 1)
                          ELSE NoCursor,
          has_more |-> has_more ]

\* get_chats without its simulated failure
GetChats(api, c) ==
    LET page_num == DecodeCursor(c)
        start_idx == page_num * api.page_size
        end_idx == Min(start_idx + api.page_size, api.total_chats)
        has_more == end_idx < api.total_chats
    IN  [ chats |-> [ k \in 1..(IF end_idx > start_idx
                                THEN end_idx - start_idx ELSE 0)
                      |-> GenerateChat(start_idx + k - 1) ],
          next_cursor |-> IF has_more THEN EncodeCursor(page_num + 1)
                          ELSE NoCursor,
          has_more |-> has_more ]



(***************************************************************************)
(* State.                                                                  *)
(***************************************************************************)
VARIABLES
    client,      \* the MockExternalAPIClient: total_chats, page_size
    lock,        \* cache key sync_chats_lock: NoLock or {the holder's task id}
    syncStates,  \* table sync_states: the rows in creation order
    customers,   \* table customers, committed: external_id -> row
    deals,       \* table deals, committed: external_id -> row
    messages,    \* the message store: <<chat_id, message_id>> -> item
    s3,          \* the keys uploaded to the avatar bucket
    telegram,    \* tables telegram_accounts, business_connections,
                 \* telegram_chats
    walk,        \* a caller of get_chats that follows next_cursor: the
                 \* pages it got, the records it saw, the cursor it probed
    pc,          \* where each task invocation stands
    max_date,    \* the max_date argument of each invocation
    retries,     \* self.request.retries of each invocation
    state,       \* the SyncState instance a task holds in memory
    cursor,      \* the local variable cursor of SyncService.run
    page,        \* the ChatPage being processed
    idx,         \* records of the page whose protocol has returned
    should_stop, \* the stop signal of the page loop
    existing_deal, \* the Deal instance found by _process_chat
    txn,         \* the writes of the open transaction.atomic() block
    exc,         \* the text of the exception being handled
    outcome,     \* how the attempt ends once the lock is removed
    faults,      \* faults that may still be injected
    failed,      \* records of the current page whose protocol raised
    touched,     \* the attempt has queried or written sync_states
    wrote,       \* the attempt has written a customer, a deal or a message
    rerun,       \* how the attempt got its SyncState (see Query, Create)
    expiredLive, \* the lock's TTL has elapsed while its holder was running
    saves,       \* the _save_cursor calls of the attempt
    record_errors \* the records whose protocol raised in the attempt, and where

vars == << client, lock, syncStates, customers, deals, messages, s3,
           telegram, walk, pc,
           max_date, retries, state, cursor, page, idx, should_stop,
           existing_deal, txn, exc, outcome, faults, failed, touched, wrote,
           rerun, expiredLive, saves, record_errors >>

\* the max_date arguments a caller passes: none, an ISO date with a UTC
\* offset, or an ISO date without one.  A string that does not parse is
\* logged and leaves the cutoff unset, like no argument
MaxDateArgs ==
    { [ kind |-> "none", value |-> 0 ],
      [ kind |-> "iso", value |-> BaseDate - 1 ],
      [ kind |-> "naive", value |-> BaseDate - 1 ] }

\* parse_datetime, then datetime.fromisoformat, of the max_date argument: an
\* aware datetime << d >>, or a naive one << d, 0 >> (tzinfo is None)
ParseMaxDate(arg) ==
    IF arg.kind = "iso" THEN << arg.value >>
    ELSE IF arg.kind = "naive" THEN << arg.value, 0 >>
    ELSE NoDate

\* the datetime has no tzinfo
IsNaive(d) == Len(d) = 2

\* what DateTimeField stores under USE_TZ: a naive value is made aware in
\* the default time zone (UTC); the instance keeps the value it was given
MakeAware(d) == IF IsNaive(d) THEN << d[1] >> ELSE d

\* no SyncState instance
NoState ==
    [ id |-> 0, task_id |-> 0, status |-> "", cursor |-> NoCursor,
      max_date |-> NoDate, processed_chats |-> 0, error_message |-> "" ]
\* no page fetched yet in this attempt (no page of the source looks like it)
NoPage == [ chats |-> << >>, next_cursor |-> NoCursor, has_more |-> TRUE ]
\* existing_deal is None
NoDeal ==
    [ external_id |-> NoKey, customer |-> NoKey, last_message_id |-> NoKey,
      last_message_at |-> NoDate, total_messages |-> 0, sync_status |-> "" ]
\* the Telegram tables, empty
NoTelegram == [ accounts |-> << >>, connections |-> << >>, chats |-> << >> ]

\* the caller of get_chats has not begun: its cursor is the empty one
NoWalk == [ cursor |-> NoCursor, more |-> TRUE, pages |-> << >>,
            visited |-> << >>, probe |-> << >> ]

\* no transaction is open
NoTxn == [ open |-> FALSE, customers |-> << >>, deals |-> << >> ]

\* a task is between its start and its exit (not crashed, not ended)
LivePcs == { "query", "create", "setrunning", "fetch", "check", "customer",
             "deal", "document", "finalize", "increment", "handler",
             "endpage", "complete", "except", "release" }
Live(t) == pc[t] \in LivePcs
\* SyncService.run is executing
EnginePcs == { "fetch", "check", "customer", "deal", "document", "finalize",
               "increment", "handler", "endpage" }
InEngine(t) == pc[t] \in EnginePcs
\* _sync_chat_atomic is executing
AtomicPcs == { "customer", "deal", "document", "finalize" }

\* the record the page loop is at
CurrentChat(t) == page[t].chats[idx[t] + 1]

\* f with key k set to v
Put(f, k, v) == [ x \in (DOMAIN f) \cup {k} |-> IF x = k THEN v ELSE f[x] ]
\* f overridden by g
Override(f, g) ==
    [ x \in (DOMAIN f) \cup (DOMAIN g) |-> IF x \in DOMAIN g THEN g[x] ELSE f[x] ]

\* created_at.isoformat()
IsoFormat(d) == << "iso", d >>

(***************************************************************************)
(* Initial state: an empty sync_states table, no lock, and an index that   *)
(* is empty or holds the source's first chat from an earlier sync, with    *)
(* the message the source still shows or with an older one.                *)
(***************************************************************************)
OldMessage == [ message_id |-> << "msg", -1 >>,
                text |-> << "Message from customer", -1 >>,
                created_at |-> BaseDate - MaxChats - 1 ]

\* the counterparty of record 0 as the source reported it at that sync
OldCustomer == [ external_id |-> GenerateChat(0).customer.external_id,
                 name |-> << "Customer", -1 >>,
                 avatar_url |-> << "avatars", -1 >> ]

IndexWith(chat, m, c) ==
    [ customers |->
          Put(<< >>, c.external_id,
              [ name |-> c.name,
                avatar_url |-> c.avatar_url,
                avatar_s3_key |-> NoKey ]),
      deals |->
          Put(<< >>, chat.external_id,
              [ customer |-> chat.customer.external_id,
                last_message_id |-> m.message_id,
                last_message_at |-> << m.created_at >>,
                total_messages |-> 1,
                sync_status |-> DEAL_COMPLETE ]),
      messages |->
          Put(<< >>, << chat.external_id, m.message_id >>,
              [ text |-> m.text, created_at |-> IsoFormat(m.created_at) ]) ]

InitialIndexes ==
    { [ customers |-> << >>, deals |-> << >>, messages |-> << >> ] }
    \cup { IndexWith(GenerateChat(0), GenerateChat(0).last_message,
                      GenerateChat(0).customer),
           IndexWith(GenerateChat(0), OldMessage, OldCustomer) }

\* no task has been invoked yet
NothingStarted ==
    /\ lock = NoLock
    /\ telegram = NoTelegram
    /\ walk = NoWalk
    /\ syncStates = << >>
    /\ s3 = { }
    /\ pc = [ t \in Tasks |-> "idle" ]
    /\ max_date = [ t \in Tasks |-> [ kind |-> "none", value |-> 0 ] ]
    /\ retries = [ t \in Tasks |-> 0 ]
    /\ state = [ t \in Tasks |-> NoState ]
    /\ cursor = [ t \in Tasks |-> NoCursor ]
    /\ page = [ t \in Tasks |-> NoPage ]
    /\ idx = [ t \in Tasks |-> 0 ]
    /\ should_stop = [ t \in Tasks |-> FALSE ]
    /\ existing_deal = [ t \in Tasks |-> NoDeal ]
    /\ txn = [ t \in Tasks |-> NoTxn ]
    /\ exc = [ t \in Tasks |-> "" ]
    /\ outcome = [ t \in Tasks |-> "" ]
    /\ failed = [ t \in Tasks |-> 0 ]
    /\ touched = [ t \in Tasks |-> FALSE ]
    /\ wrote = [ t \in Tasks |-> FALSE ]
    /\ rerun = [ t \in Tasks |-> "" ]
    /\ expiredLive = FALSE
    /\ saves = [ t \in Tasks |-> 0 ]
    /\ record_errors = [ t \in Tasks |-> { } ]

Init ==
    /\ client \in [ total_chats : 0..MaxChats, page_size : 1..MaxPageSize ]
    /\ \E ix \in InitialIndexes :
        /\ customers = ix.customers
        /\ deals = ix.deals
        /\ messages = ix.messages
    /\ faults = MaxFaults
    /\ NothingStarted


(***************************************************************************)
(* sync_chats_task: the lock, the SyncState, the exits.                    *)
(***************************************************************************)
dbVars == << syncStates, customers, deals, messages, s3 >>
engineVars == << cursor, page, idx, should_stop, existing_deal, txn, failed >>

\* (mutant) cache.set in place of cache.add: the key is always stored
CacheSetStores == TRUE

\* cache.add stores the key only when it is absent, and says whether it did
CacheAddStores == lock = NoLock

\* the lock was taken: the try block is entered
Acquire(t) ==
    /\ lock' = {t}
    /\ pc' = [pc EXCEPT ![t] = "query"]
    /\ outcome' = [outcome EXCEPT ![t] = ""]

\* (mutant) the early return moved inside the try block: finally deletes
\* the key of the invocation that holds it
SkipDeletingLock(t) ==
    /\ pc' = [pc EXCEPT ![t] = "skipped"]
    /\ outcome' = [outcome EXCEPT ![t] = "skipped"]
    /\ lock' = NoLock

\* the lock is held: return {'status': 'skipped'} before the try block
Skip(t) ==
    /\ pc' = [pc EXCEPT ![t] = "skipped"]
    /\ outcome' = [outcome EXCEPT ![t] = "skipped"]
    /\ UNCHANGED lock

TryAcquire(t) == IF CacheAddStores THEN Acquire(t) ELSE Skip(t)

\* a new invocation of the task; invocations are numbered in the order of
\* their first start.  The max_date argument is read only by an invocation
\* that takes the lock, so it is drawn there; one without a UTC offset is
\* counted among the faults of the behaviour.
Start(t) ==
    /\ pc[t] = "idle"
    /\ \A u \in Tasks : u < t => pc[u] # "idle"
    /\ IF CacheAddStores
       THEN \E arg \in MaxDateArgs :
              /\ max_date' = [max_date EXCEPT ![t] = arg]
              /\ IF arg.kind = "naive"
                 THEN faults > 0 /\ faults' = faults - 1
                 ELSE UNCHANGED faults
       ELSE UNCHANGED << max_date, faults >>
    /\ TryAcquire(t)
    /\ UNCHANGED << client, telegram, walk, dbVars, retries, state, engineVars, exc,
                    touched, wrote, rerun, expiredLive, saves,
                    record_errors >>

\* the attempt Celery re-queued with self.retry: same task id and arguments
Restart(t) ==
    /\ pc[t] = "retry"
    /\ TryAcquire(t)
    /\ UNCHANGED << client, telegram, walk, dbVars, max_date, retries, state, engineVars, exc,
                    faults, touched, wrote, rerun, expiredLive, saves,
                    record_errors >>

\* (mutant) the filter forgets RUNNING
IncompleteOnlyPending ==
    { i \in 1..Len(syncStates) : syncStates[i].status = PENDING }

\* (mutant) the filter forgets PENDING
IncompleteOnlyRunning ==
    { i \in 1..Len(syncStates) : syncStates[i].status = RUNNING }

\* SyncState.objects.filter(status__in=[RUNNING, PENDING])
IncompleteStates ==
    { i \in 1..Len(syncStates) : syncStates[i].status \in { RUNNING, PENDING } }

\* .first() under Meta.ordering = ['-started_at']: the newest row
First(rows) == CHOOSE i \in rows : \A j \in rows : j <= i

\* the instance loaded from, or returned for, row i
Instance(i, row) ==
    [ id |-> i, task_id |-> row.task_id, status |-> row.status,
      cursor |-> row.cursor, max_date |-> row.max_date,
      processed_chats |-> row.processed_chats,
      error_message |-> row.error_message ]

\* (mutant) _get_or_create_sync_state without the query: always an insert
QueryWithoutResume(t) ==
    /\ pc[t] = "query"
    /\ touched' = [touched EXCEPT ![t] = TRUE]
    /\ pc' = [pc EXCEPT ![t] = "create"]
    /\ UNCHANGED << client, telegram, walk, lock, dbVars, max_date, retries, state,
                    rerun, engineVars, exc, outcome, faults, failed, wrote,
                    expiredLive, saves, record_errors >>

\* _get_or_create_sync_state, the query: an incomplete state is returned as is
Query(t) ==
    /\ pc[t] = "query"
    /\ touched' = [touched EXCEPT ![t] = TRUE]
    /\ IF IncompleteStates # { }
       THEN /\ state' = [state EXCEPT ![t] =
                            Instance(First(IncompleteStates),
                                     syncStates[First(IncompleteStates)])]
            /\ rerun' = [rerun EXCEPT ![t] = "resumed"]
            /\ pc' = [pc EXCEPT ![t] = "setrunning"]
       ELSE /\ pc' = [pc EXCEPT ![t] = "create"]
            /\ UNCHANGED << state, rerun >>
    /\ UNCHANGED << client, telegram, walk, lock, dbVars, max_date, retries, engineVars, exc,
                    outcome, faults, failed, wrote, expiredLive, saves,
                    record_errors >>

\* the first record of the source needs no write under cutoff d: the source
\* is empty, the record is older than d, or its deal holds its message id
FirstRecordSettled(d) ==
    \/ client.total_chats = 0
    \/ d # NoDate /\ GenerateChat(0).last_message.created_at < d[1]
    \/ /\ GenerateChat(0).external_id \in DOMAIN deals
       /\ deals[GenerateChat(0).external_id].last_message_id
              = GenerateChat(0).last_message.message_id

\* what the new row's run is: the first run with its cutoff, or a run that
\* follows a completed one with the same cutoff
RunKind(d) ==
    IF \E i \in 1..Len(syncStates) :
           syncStates[i].status = COMPLETED /\ syncStates[i].max_date = d
    THEN IF FirstRecordSettled(d) THEN "rerun-settled" ELSE "rerun"
    ELSE "first"

\* _get_or_create_sync_state, the insert; task_id is unique
Create(t) ==
    /\ pc[t] = "create"
    /\ IF \E i \in 1..Len(syncStates) : syncStates[i].task_id = t
       THEN /\ exc' = [exc EXCEPT ![t] = "IntegrityError"]
            /\ pc' = [pc EXCEPT ![t] = "except"]
            /\ UNCHANGED << syncStates, state, rerun >>
       ELSE LET row == [ task_id |-> t, status |-> PENDING,
                         cursor |-> NoCursor,
                         max_date |-> MakeAware(ParseMaxDate(max_date[t])),
                         processed_chats |-> 0, error_message |-> "" ]
            IN  /\ syncStates' = Append(syncStates, row)
                /\ state' = [state EXCEPT ![t] =
                                [ Instance(Len(syncStates) + 1, row) EXCEPT
                                    !.max_date = ParseMaxDate(max_date[t]) ]]
                /\ rerun' = [rerun EXCEPT ![t] = RunKind(row.max_date)]
                /\ pc' = [pc EXCEPT ![t] = "setrunning"]
                /\ UNCHANGED exc
    /\ UNCHANGED << client, telegram, walk, lock, customers, deals, messages, s3, max_date,
                    retries, engineVars, outcome, faults, touched, wrote,
                    expiredLive, saves,
                    record_errors >>

\* state.status = RUNNING; state.save(update_fields=['status']);
\* SyncService(state).run() begins: cursor = self.state.cursor or None
SetRunning(t) ==
    /\ pc[t] = "setrunning"
    /\ syncStates' = [syncStates EXCEPT ![state[t].id].status = RUNNING]
    /\ state' = [state EXCEPT ![t].status = RUNNING]
    /\ cursor' = [cursor EXCEPT ![t] = state[t].cursor]
    /\ pc' = [pc EXCEPT ![t] = "fetch"]
    /\ UNCHANGED << client, telegram, walk, lock, customers, deals, messages, s3, max_date,
                    retries, page, idx, should_stop, existing_deal, txn, exc,
                    outcome, faults, failed, touched, wrote, rerun,
                    expiredLive, saves,
                    record_errors >>

\* run() returned: state.status = COMPLETED; state.save(...)
Complete(t) ==
    /\ pc[t] = "complete"
    /\ syncStates' = [syncStates EXCEPT ![state[t].id].status = COMPLETED]
    /\ state' = [state EXCEPT ![t].status = COMPLETED]
    /\ outcome' = [outcome EXCEPT ![t] = "completed"]
    /\ pc' = [pc EXCEPT ![t] = "release"]
    /\ UNCHANGED << client, telegram, walk, lock, customers, deals, messages, s3, max_date,
                    retries, engineVars, exc, faults, touched, wrote, rerun,
                    expiredLive, saves,
                    record_errors >>

\* (mutant) the except clause re-queues the task without saving the state
ExceptWithoutSave(t) ==
    /\ pc[t] = "except"
    /\ IF retries[t] < MAX_RETRIES
       THEN /\ retries' = [retries EXCEPT ![t] = retries[t] + 1]
            /\ outcome' = [outcome EXCEPT ![t] = "retry"]
       ELSE /\ outcome' = [outcome EXCEPT ![t] = "gaveup"]
            /\ UNCHANGED retries
    /\ pc' = [pc EXCEPT ![t] = "release"]
    /\ UNCHANGED << client, telegram, walk, lock, dbVars, max_date, state, engineVars, exc,
                    faults, touched, wrote, rerun, expiredLive, saves,
                    record_errors >>

\* (mutant) self.retry re-queues the task whatever the number of retries
ExceptAlwaysRetrying(t) ==
    /\ pc[t] = "except"
    /\ IF state[t] # NoState
       THEN /\ syncStates' = [syncStates EXCEPT
                                 ![state[t].id].status = FAILED,
                                 ![state[t].id].error_message = exc[t]]
            /\ state' = [state EXCEPT ![t].status = FAILED,
                                      ![t].error_message = exc[t]]
       ELSE UNCHANGED << syncStates, state >>
    /\ retries' = [retries EXCEPT ![t] = retries[t] + 1]
    /\ outcome' = [outcome EXCEPT ![t] = "retry"]
    /\ pc' = [pc EXCEPT ![t] = "release"]
    /\ UNCHANGED << client, telegram, walk, lock, customers, deals, messages, s3, max_date,
                    engineVars, exc, faults, touched, wrote, rerun,
                    expiredLive, saves,
                    record_errors >>

\* except Exception: the state, if any, is saved FAILED with the error, and
\* self.retry re-queues the task unless its retries are used up
Except(t) ==
    /\ pc[t] = "except"
    /\ IF state[t] # NoState
       THEN /\ syncStates' = [syncStates EXCEPT
                                 ![state[t].id].status = FAILED,
                                 ![state[t].id].error_message = exc[t]]
            /\ state' = [state EXCEPT ![t].status = FAILED,
                                      ![t].error_message = exc[t]]
       ELSE UNCHANGED << syncStates, state >>
    /\ IF retries[t] < MAX_RETRIES
       THEN /\ retries' = [retries EXCEPT ![t] = retries[t] + 1]
            /\ outcome' = [outcome EXCEPT ![t] = "retry"]
       ELSE /\ outcome' = [outcome EXCEPT ![t] = "gaveup"]
            /\ UNCHANGED retries
    /\ pc' = [pc EXCEPT ![t] = "release"]
    /\ UNCHANGED << client, telegram, walk, lock, customers, deals, messages, s3, max_date,
                    engineVars, exc, faults, touched, wrote, rerun,
                    expiredLive, saves,
                    record_errors >>

\* the attempt is over: its objects are gone
Forget(t) ==
    /\ state' = [state EXCEPT ![t] = NoState]
    /\ cursor' = [cursor EXCEPT ![t] = NoCursor]
    /\ page' = [page EXCEPT ![t] = NoPage]
    /\ idx' = [idx EXCEPT ![t] = 0]
    /\ should_stop' = [should_stop EXCEPT ![t] = FALSE]
    /\ existing_deal' = [existing_deal EXCEPT ![t] = NoDeal]
    /\ txn' = [txn EXCEPT ![t] = NoTxn]
    /\ exc' = [exc EXCEPT ![t] = ""]
    /\ failed' = [failed EXCEPT ![t] = 0]
    /\ touched' = [touched EXCEPT ![t] = FALSE]
    /\ wrote' = [wrote EXCEPT ![t] = FALSE]
    /\ rerun' = [rerun EXCEPT ![t] = ""]
    /\ saves' = [saves EXCEPT ![t] = 0]
    /\ record_errors' = [record_errors EXCEPT ![t] = { }]

\* (mutant) the key is deleted on the return path only, not in a finally
ReleaseOnReturnOnly(t) ==
    /\ pc[t] = "release"
    /\ lock' = IF outcome[t] = "completed" THEN NoLock ELSE lock
    /\ pc' = [pc EXCEPT ![t] = outcome[t]]
    /\ Forget(t)
    /\ UNCHANGED << client, telegram, walk, dbVars, max_date, retries, outcome, faults,
                    expiredLive >>

\* finally: cache.delete(SYNC_LOCK_KEY), whoever holds the key
Release(t) ==
    /\ pc[t] = "release"
    /\ lock' = NoLock
    /\ pc' = [pc EXCEPT ![t] = outcome[t]]
    /\ Forget(t)
    /\ UNCHANGED << client, telegram, walk, dbVars, max_date, retries, outcome, faults,
                    expiredLive >>

\* the worker process dies: nothing more of the attempt runs, its open
\* transaction is rolled back, the lock stays until its TTL
Crash(t) ==
    /\ Live(t)
    /\ faults > 0
    /\ faults' = faults - 1
    /\ pc' = [pc EXCEPT ![t] = "crashed"]
    /\ outcome' = [outcome EXCEPT ![t] = "crashed"]
    /\ Forget(t)
    /\ UNCHANGED << client, telegram, walk, lock, dbVars, max_date, retries, expiredLive >>

\* the TTL of the lock key (SYNC_LOCK_TIMEOUT) elapses
LockExpire ==
    /\ lock # NoLock
    /\ lock' = NoLock
    /\ IF \E t \in lock : Live(t)
       THEN /\ faults = MaxFaults
            /\ faults' = 0
            /\ expiredLive' = TRUE
       ELSE UNCHANGED << faults, expiredLive >>
    /\ UNCHANGED << client, telegram, walk, dbVars, pc, max_date, retries, state, engineVars,
                    exc, outcome, touched, wrote, rerun, saves,
                    record_errors >>


(***************************************************************************)
(* SyncService: the page loop and the per-record protocol.                 *)
(***************************************************************************)
\* where the page loop goes once the record at idx has been dealt with
AfterRecord(t) ==
    IF idx[t] + 1 < Len(page[t].chats) THEN "check" ELSE "endpage"

\* (mutant) the cursor of the next page is saved as soon as the page arrives
FetchSavingCursor(t) ==
    /\ pc[t] = "fetch"
    /\ page' = [page EXCEPT ![t] = GetChats(client, cursor[t])]
    /\ idx' = [idx EXCEPT ![t] = 0]
    /\ failed' = [failed EXCEPT ![t] = 0]
    /\ should_stop' = [should_stop EXCEPT ![t] = FALSE]
    /\ pc' = [pc EXCEPT ![t] =
                 IF Len(GetChats(client, cursor[t]).chats) = 0
                 THEN "endpage" ELSE "check"]
    /\ IF GetChats(client, cursor[t]).next_cursor # NoCursor
       THEN /\ state' = [state EXCEPT ![t].cursor =
                            GetChats(client, cursor[t]).next_cursor]
            /\ syncStates' = [syncStates EXCEPT ![state[t].id].cursor =
                                 GetChats(client, cursor[t]).next_cursor]
       ELSE UNCHANGED << state, syncStates >>
    /\ UNCHANGED << client, telegram, walk, lock, customers, deals, messages, s3, max_date,
                    retries, cursor, existing_deal, txn, exc, outcome, faults,
                    touched, wrote, rerun, expiredLive, saves,
                    record_errors >>

\* page = self.api_client.get_chats(cursor=cursor)
Fetch(t) ==
    /\ pc[t] = "fetch"
    /\ page' = [page EXCEPT ![t] = GetChats(client, cursor[t])]
    /\ idx' = [idx EXCEPT ![t] = 0]
    /\ failed' = [failed EXCEPT ![t] = 0]
    /\ should_stop' = [should_stop EXCEPT ![t] = FALSE]
    /\ pc' = [pc EXCEPT ![t] =
                 IF Len(GetChats(client, cursor[t]).chats) = 0
                 THEN "endpage" ELSE "check"]
    /\ UNCHANGED << client, telegram, walk, lock, dbVars, max_date, retries, state, cursor,
                    existing_deal, txn, exc, outcome, faults, touched, wrote,
                    rerun, expiredLive, saves,
                    record_errors >>

\* (mutant) run() raises an error of its own in place of the one it caught
FetchFailWrapped(t) ==
    /\ pc[t] = "fetch"
    /\ faults > 0
    /\ faults' = faults - 1
    /\ exc' = [exc EXCEPT ![t] = "Sync failed"]
    /\ pc' = [pc EXCEPT ![t] = "except"]
    /\ UNCHANGED << client, telegram, walk, lock, dbVars, max_date, retries, state,
                    engineVars, outcome, touched, wrote, rerun, expiredLive,
                    saves, record_errors >>

\* get_chats raises ExternalAPIError: run() re-raises it to the task
FetchFail(t) ==
    /\ pc[t] = "fetch"
    /\ faults > 0
    /\ faults' = faults - 1
    /\ exc' = [exc EXCEPT ![t] = "Simulated API failure"]
    /\ pc' = [pc EXCEPT ![t] = "except"]
    /\ UNCHANGED << client, telegram, walk, lock, dbVars, max_date, retries, state,
                    engineVars, outcome, touched, wrote, rerun, expiredLive, saves,
                    record_errors >>

\* (mutant) the max_date check with <= in place of <
ReachedMaxDateInclusive(cutoff, chat) ==
    cutoff # NoDate /\ chat.last_message.created_at <= cutoff[1]

\* (mutant) the cutoff is never looked at
ReachedMaxDateIgnored(cutoff, chat) == FALSE

\* the max_date check of _process_chat: strictly older than the cutoff
ReachedMaxDate(cutoff, chat) ==
    cutoff # NoDate /\ chat.last_message.created_at < cutoff[1]

\* the aware created_at of a record is compared with a naive cutoff:
\* TypeError, raised outside the try block of _process_chat
CompareRaises(cutoff) == cutoff # NoDate /\ IsNaive(cutoff)

\* (mutant) the lookup finds no deal
FindDealMisses(external_id) == NoDeal

\* Deal.objects.filter(external_id=...).first()
FindDeal(external_id) ==
    IF external_id \in DOMAIN deals
    THEN [ external_id |-> external_id,
           customer |-> deals[external_id].customer,
           last_message_id |-> deals[external_id].last_message_id,
           last_message_at |-> deals[external_id].last_message_at,
           total_messages |-> deals[external_id].total_messages,
           sync_status |-> deals[external_id].sync_status ]
    ELSE NoDeal

\* (mutant) the no-change check never fires
UnchangedNever(deal, chat) == FALSE

\* the no-change check of _process_chat
Unchanged(deal, chat) ==
    deal # NoDeal /\ deal.last_message_id = chat.last_message.message_id

\* _process_chat up to the try block: either check may stop the run
Check(t) ==
    /\ pc[t] = "check"
    /\ LET chat == CurrentChat(t)
           found == FindDeal(chat.external_id)
       IN  IF CompareRaises(state[t].max_date)
           THEN /\ exc' = [exc EXCEPT ![t] = "TypeError"]
                /\ pc' = [pc EXCEPT ![t] = "except"]
                /\ UNCHANGED << should_stop, existing_deal, txn >>
           ELSE IF ReachedMaxDate(state[t].max_date, chat)
                   \/ Unchanged(found, chat)
           THEN /\ should_stop' = [should_stop EXCEPT ![t] = TRUE]
                /\ pc' = [pc EXCEPT ![t] = "endpage"]
                /\ UNCHANGED << existing_deal, txn, exc >>
           ELSE /\ existing_deal' = [existing_deal EXCEPT ![t] = found]
                /\ txn' = [txn EXCEPT ![t] = [NoTxn EXCEPT !.open = TRUE]]
                /\ pc' = [pc EXCEPT ![t] = "customer"]
                /\ UNCHANGED << should_stop, exc >>
    /\ UNCHANGED << client, telegram, walk, lock, dbVars, max_date, retries, state, cursor,
                    page, idx, outcome, faults, failed, touched, wrote,
                    rerun, expiredLive, saves,
                    record_errors >>

\* another open transaction has written the row: the statement waits
CustomerLocked(t, external_id) ==
    \E u \in Tasks \ {t} : txn[u].open /\ external_id \in DOMAIN txn[u].customers
DealLocked(t, external_id) ==
    \E u \in Tasks \ {t} : txn[u].open /\ external_id \in DOMAIN txn[u].deals

\* (mutant) update_or_create in place of get_or_create: the row is written
\* from the record whether it exists or not
UpdateOrCreateCustomer(t, avatar_ok) ==
    /\ pc[t] = "customer"
    /\ avatar_ok
    /\ LET c == CurrentChat(t).customer
       IN  /\ ~ CustomerLocked(t, c.external_id)
           /\ txn' = [txn EXCEPT ![t].customers =
                         Put(@, c.external_id,
                             [ name |-> c.name,
                               avatar_url |-> c.avatar_url,
                               avatar_s3_key |-> << "avatars", c.external_id >> ])]
           /\ s3' = s3 \cup { << "avatars", c.external_id >> }
    /\ wrote' = [wrote EXCEPT ![t] = TRUE]
    /\ pc' = [pc EXCEPT ![t] = "deal"]
    /\ UNCHANGED << client, telegram, walk, lock, syncStates, customers, deals, messages,
                    max_date, retries, state, cursor, page, idx, should_stop,
                    existing_deal, exc, outcome, faults, failed, touched,
                    rerun, expiredLive, saves, record_errors >>

\* (mutant) the avatar is fetched and stored whether the row was created or
\* found
QueueAvatarAlways(t, avatar_ok) ==
    /\ pc[t] = "customer"
    /\ LET c == CurrentChat(t).customer
           key == << "avatars", c.external_id >>
       IN  /\ ~ CustomerLocked(t, c.external_id)
           /\ IF c.external_id \in DOMAIN customers
              THEN /\ avatar_ok
                   /\ s3' = s3 \cup { key }
                   /\ UNCHANGED << txn, wrote, faults >>
              ELSE /\ wrote' = [wrote EXCEPT ![t] = TRUE]
                   /\ IF c.avatar_url # NoKey /\ avatar_ok
                      THEN /\ s3' = s3 \cup { key }
                           /\ txn' = [txn EXCEPT ![t].customers =
                                  Put(@, c.external_id,
                                      [ name |-> c.name,
                                        avatar_url |-> c.avatar_url,
                                        avatar_s3_key |-> key ])]
                           /\ UNCHANGED faults
                      ELSE /\ c.avatar_url # NoKey => faults > 0
                           /\ faults' = IF c.avatar_url # NoKey
                                        THEN faults - 1 ELSE faults
                           /\ txn' = [txn EXCEPT ![t].customers =
                                  Put(@, c.external_id,
                                      [ name |-> c.name,
                                        avatar_url |-> c.avatar_url,
                                        avatar_s3_key |-> NoKey ])]
                           /\ UNCHANGED s3
    /\ pc' = [pc EXCEPT ![t] = "deal"]
    /\ UNCHANGED << client, telegram, walk, lock, syncStates, customers, deals, messages,
                    max_date, retries, state, cursor, page, idx, should_stop,
                    existing_deal, exc, outcome, failed, touched, rerun,
                    expiredLive, saves,
                    record_errors >>

\* _get_or_create_customer: an existing row is returned untouched; a new one
\* is inserted and its avatar fetched and stored (avatar_ok: that worked)
GetOrCreateCustomer(t, avatar_ok) ==
    /\ pc[t] = "customer"
    /\ LET c == CurrentChat(t).customer
           key == << "avatars", c.external_id >>
       IN  /\ ~ CustomerLocked(t, c.external_id)
           /\ IF c.external_id \in DOMAIN customers
              THEN /\ avatar_ok
                   /\ UNCHANGED << txn, s3, wrote, faults >>
              ELSE /\ wrote' = [wrote EXCEPT ![t] = TRUE]
                   /\ IF c.avatar_url # NoKey /\ avatar_ok
                      THEN /\ s3' = s3 \cup { key }
                           /\ txn' = [txn EXCEPT ![t].customers =
                                  Put(@, c.external_id,
                                      [ name |-> c.name,
                                        avatar_url |-> c.avatar_url,
                                        avatar_s3_key |-> key ])]
                           /\ UNCHANGED faults
                      ELSE /\ c.avatar_url # NoKey => faults > 0
                           /\ faults' = IF c.avatar_url # NoKey
                                        THEN faults - 1 ELSE faults
                           /\ txn' = [txn EXCEPT ![t].customers =
                                  Put(@, c.external_id,
                                      [ name |-> c.name,
                                        avatar_url |-> c.avatar_url,
                                        avatar_s3_key |-> NoKey ])]
                           /\ UNCHANGED s3
    /\ pc' = [pc EXCEPT ![t] = "deal"]
    /\ UNCHANGED << client, telegram, walk, lock, syncStates, customers, deals, messages,
                    max_date, retries, state, cursor, page, idx, should_stop,
                    existing_deal, exc, outcome, failed, touched, rerun,
                    expiredLive, saves,
                    record_errors >>

\* _create_or_update_deal: the row is written PENDING inside the transaction;
\* an insert of an external_id that exists by now raises IntegrityError
CreateOrUpdateDeal(t) ==
    /\ pc[t] = "deal"
    /\ LET chat == CurrentChat(t)
           ext == chat.external_id
           fresh == [ customer |-> chat.customer.external_id,
                      last_message_id |-> chat.last_message.message_id,
                      last_message_at |-> << chat.last_message.created_at >>,
                      total_messages |-> 0,
                      sync_status |-> DEAL_PENDING ]
       IN  /\ ~ DealLocked(t, ext)
           /\ IF existing_deal[t] # NoDeal
              THEN /\ txn' = [txn EXCEPT ![t].deals =
                          Put(@, ext,
                              [ deals[ext] EXCEPT
                                  !.customer = fresh.customer,
                                  !.last_message_id = fresh.last_message_id,
                                  !.last_message_at = fresh.last_message_at,
                                  !.sync_status = DEAL_PENDING ])]
                   /\ pc' = [pc EXCEPT ![t] = "document"]
                   /\ UNCHANGED record_errors
              ELSE IF ext \in DOMAIN deals
              THEN /\ txn' = [txn EXCEPT ![t] = NoTxn]
                   /\ pc' = [pc EXCEPT ![t] = "handler"]
                   /\ record_errors' = [record_errors EXCEPT ![t] =
                                           @ \cup { << ext, "deal" >> }]
              ELSE /\ txn' = [txn EXCEPT ![t].deals = Put(@, ext, fresh)]
                   /\ pc' = [pc EXCEPT ![t] = "document"]
                   /\ UNCHANGED record_errors
    /\ wrote' = [wrote EXCEPT ![t] = TRUE]
    /\ UNCHANGED << client, telegram, walk, lock, dbVars, max_date, retries, state, cursor,
                    page, idx, should_stop, existing_deal, exc, outcome,
                    faults, failed, touched, rerun, expiredLive, saves >>

\* (mutant) an item that exists is kept as it is
SaveMessageIfAbsent(store, chat_id, message_id, text, created_at) ==
    IF << chat_id, message_id >> \in DOMAIN store
    THEN store
    ELSE Put(store, << chat_id, message_id >>,
             [ text |-> text, created_at |-> << "iso", created_at >> ])

\* MockMessageStore.save_message: the item under (chat_id, message_id)
SaveMessage(store, chat_id, message_id, text, created_at) ==
    Put(store, << chat_id, message_id >>,
        [ text |-> text, created_at |-> IsoFormat(created_at) ])

\* (mutant) the document write is held back with the SQL transaction
SaveMessageWithTransaction(t) ==
    /\ pc[t] = "document"
    /\ pc' = [pc EXCEPT ![t] = "finalize"]
    /\ UNCHANGED << client, telegram, walk, lock, dbVars, max_date, retries, state,
                    engineVars, exc, outcome, faults, touched, wrote, rerun,
                    expiredLive, saves, record_errors >>

\* _save_message_to_dynamodb: written at once, outside the SQL transaction
SaveMessageToDynamodb(t) ==
    /\ pc[t] = "document"
    /\ LET chat == CurrentChat(t)
       IN  messages' = SaveMessage(messages, chat.external_id,
                                   chat.last_message.message_id,
                                   chat.last_message.text,
                                   chat.last_message.created_at)
    /\ wrote' = [wrote EXCEPT ![t] = TRUE]
    /\ pc' = [pc EXCEPT ![t] = "finalize"]
    /\ UNCHANGED << client, telegram, walk, lock, syncStates, customers, deals, s3, max_date,
                    retries, state, engineVars, exc, outcome, faults, touched,
                    rerun, expiredLive, saves,
                    record_errors >>

\* (mutant) the deal is marked COMPLETE without the increment
FinalizeWithoutIncrement(t) ==
    /\ pc[t] = "finalize"
    /\ LET ext == CurrentChat(t).external_id
           done == [ txn[t].deals[ext] EXCEPT
                       !.sync_status = DEAL_COMPLETE,
                       !.total_messages = existing_deal[t].total_messages ]
       IN  /\ customers' = Override(customers, txn[t].customers)
           /\ deals' = Put(deals, ext, done)
    /\ txn' = [txn EXCEPT ![t] = NoTxn]
    /\ wrote' = [wrote EXCEPT ![t] = TRUE]
    /\ pc' = [pc EXCEPT ![t] = "increment"]
    /\ UNCHANGED << client, telegram, walk, lock, syncStates, messages, s3, max_date, retries,
                    state, cursor, page, idx, should_stop, existing_deal, exc,
                    outcome, faults, failed, touched, rerun, expiredLive, saves,
                    record_errors >>

\* deal.sync_status = COMPLETE; deal.total_messages += 1; deal.save(...);
\* the atomic block exits and its writes are committed
Finalize(t) ==
    /\ pc[t] = "finalize"
    /\ LET ext == CurrentChat(t).external_id
           done == [ txn[t].deals[ext] EXCEPT
                       !.sync_status = DEAL_COMPLETE,
                       !.total_messages = existing_deal[t].total_messages + 1 ]
       IN  /\ customers' = Override(customers, txn[t].customers)
           /\ deals' = Put(deals, ext, done)
    /\ txn' = [txn EXCEPT ![t] = NoTxn]
    /\ wrote' = [wrote EXCEPT ![t] = TRUE]
    /\ pc' = [pc EXCEPT ![t] = "increment"]
    /\ UNCHANGED << client, telegram, walk, lock, syncStates, messages, s3, max_date, retries,
                    state, cursor, page, idx, should_stop, existing_deal, exc,
                    outcome, faults, failed, touched, rerun, expiredLive, saves,
                    record_errors >>

\* (mutant) a failed save_message is swallowed: the deal is finalized anyway
RecordFailSwallowed(t) ==
    /\ pc[t] \in AtomicPcs
    /\ faults > 0
    /\ faults' = faults - 1
    /\ IF pc[t] = "document"
       THEN /\ pc' = [pc EXCEPT ![t] = "finalize"]
            /\ UNCHANGED txn
       ELSE /\ txn' = [txn EXCEPT ![t] = NoTxn]
            /\ pc' = [pc EXCEPT ![t] = "handler"]
    /\ UNCHANGED << client, telegram, walk, lock, dbVars, max_date, retries, state, cursor,
                    page, idx, should_stop, existing_deal, exc, outcome,
                    failed, touched, wrote, rerun, expiredLive, saves,
                    record_errors >>

\* a statement of _sync_chat_atomic raises: the atomic block rolls back and
\* the except clause of _process_chat takes over
RecordFail(t) ==
    /\ pc[t] \in AtomicPcs
    /\ faults > 0
    /\ faults' = faults - 1
    /\ txn' = [txn EXCEPT ![t] = NoTxn]
    /\ pc' = [pc EXCEPT ![t] = "handler"]
    /\ record_errors' = [record_errors EXCEPT ![t] =
                            @ \cup { << CurrentChat(t).external_id, pc[t] >> }]
    /\ UNCHANGED << client, telegram, walk, lock, dbVars, max_date, retries, state, cursor,
                    page, idx, should_stop, existing_deal, exc, outcome,
                    failed, touched, wrote, rerun, expiredLive, saves >>

\* (mutant) the except clause of _process_chat re-raises to the page loop
HandlerReraising(t) ==
    /\ pc[t] = "handler"
    /\ exc' = [exc EXCEPT ![t] = "record failed"]
    /\ pc' = [pc EXCEPT ![t] = "except"]
    /\ UNCHANGED << client, telegram, walk, lock, dbVars, max_date, retries, state, cursor,
                    page, idx, should_stop, existing_deal, txn, outcome,
                    faults, failed, touched, wrote, rerun, expiredLive, saves,
                    record_errors >>

\* (mutant) the except clause saves the whole instance, which holds what
\* _create_or_update_deal assigned to it
HandlerSavingAllFields(t) ==
    /\ pc[t] = "handler"
    /\ IF existing_deal[t] # NoDeal
       THEN /\ ~ DealLocked(t, existing_deal[t].external_id)
            /\ deals' = [deals EXCEPT
                           ![existing_deal[t].external_id] =
                              [ @ EXCEPT
                                  !.customer =
                                     CurrentChat(t).customer.external_id,
                                  !.last_message_id =
                                     CurrentChat(t).last_message.message_id,
                                  !.last_message_at =
                                     << CurrentChat(t).last_message.created_at >>,
                                  !.sync_status = DEAL_FAILED ]]
            /\ wrote' = [wrote EXCEPT ![t] = TRUE]
       ELSE UNCHANGED << deals, wrote >>
    /\ failed' = [failed EXCEPT ![t] = failed[t] + 1]
    /\ idx' = [idx EXCEPT ![t] = idx[t] + 1]
    /\ pc' = [pc EXCEPT ![t] = AfterRecord(t)]
    /\ UNCHANGED << client, telegram, walk, lock, syncStates, customers, messages, s3,
                    max_date, retries, state, cursor, page, should_stop,
                    existing_deal, txn, exc, outcome, faults, touched, rerun,
                    expiredLive, saves,
                    record_errors >>

\* the except clause of _process_chat: an existing deal is saved FAILED
\* (update_fields=['sync_status']); the loop goes on with the next record
Handler(t) ==
    /\ pc[t] = "handler"
    /\ IF existing_deal[t] # NoDeal
       THEN /\ ~ DealLocked(t, existing_deal[t].external_id)
            /\ deals' = [deals EXCEPT
                           ![existing_deal[t].external_id].sync_status =
                               DEAL_FAILED]
            /\ wrote' = [wrote EXCEPT ![t] = TRUE]
       ELSE UNCHANGED << deals, wrote >>
    /\ failed' = [failed EXCEPT ![t] = failed[t] + 1]
    /\ idx' = [idx EXCEPT ![t] = idx[t] + 1]
    /\ pc' = [pc EXCEPT ![t] = AfterRecord(t)]
    /\ UNCHANGED << client, telegram, walk, lock, syncStates, customers, messages, s3,
                    max_date, retries, state, cursor, page, should_stop,
                    existing_deal, txn, exc, outcome, faults, touched, rerun,
                    expiredLive, saves,
                    record_errors >>

\* _increment_processed: processed_chats += 1 on the instance, then saved
IncrementProcessed(t) ==
    /\ pc[t] = "increment"
    /\ state' = [state EXCEPT ![t].processed_chats = @ + 1]
    /\ syncStates' = [syncStates EXCEPT ![state[t].id].processed_chats =
                         state[t].processed_chats + 1]
    /\ idx' = [idx EXCEPT ![t] = idx[t] + 1]
    /\ pc' = [pc EXCEPT ![t] = AfterRecord(t)]
    /\ UNCHANGED << client, telegram, walk, lock, customers, deals, messages, s3, max_date,
                    retries, cursor, page, should_stop, existing_deal, txn,
                    exc, outcome, faults, failed, touched, wrote, rerun,
                    expiredLive, saves,
                    record_errors >>

\* the page loop of _process_page has returned
PageLoopEnded(t) == should_stop[t] \/ idx[t] = Len(page[t].chats)

\* (mutant) the cursor is saved only after a page without a failed record
SavesCursorIfClean(t) == page[t].next_cursor # NoCursor /\ failed[t] = 0

\* (mutant) the cursor is saved after every page, with or without a next one
SavesCursorAlways(t) == TRUE

\* if page.next_cursor: self._save_cursor(page.next_cursor)
SavesCursor(t) == page[t].next_cursor # NoCursor

\* (mutant) the run goes on to the next page as long as there is one, also
\* after a record said stop
EndPageIgnoringStop(t) ==
    /\ pc[t] = "endpage"
    /\ PageLoopEnded(t)
    /\ IF SavesCursor(t)
       THEN /\ state' = [state EXCEPT ![t].cursor = page[t].next_cursor]
            /\ saves' = [saves EXCEPT ![t] = saves[t] + 1]
            /\ syncStates' = [syncStates EXCEPT ![state[t].id].cursor =
                                 page[t].next_cursor]
       ELSE UNCHANGED << state, syncStates, saves >>
    /\ IF ~ page[t].has_more
       THEN /\ pc' = [pc EXCEPT ![t] = "complete"]
            /\ UNCHANGED cursor
       ELSE /\ cursor' = [cursor EXCEPT ![t] = page[t].next_cursor]
            /\ pc' = [pc EXCEPT ![t] = "fetch"]
    /\ UNCHANGED << client, telegram, walk, lock, customers, deals, messages, s3, max_date,
                    retries, page, idx, should_stop, existing_deal, txn, exc,
                    outcome, faults, failed, touched, wrote, rerun,
                    expiredLive, record_errors >>

\* after _process_page: the cursor is saved, then the run stops or goes on
EndPage(t) ==
    /\ pc[t] = "endpage"
    /\ PageLoopEnded(t)
    /\ IF SavesCursor(t)
       THEN /\ state' = [state EXCEPT ![t].cursor = page[t].next_cursor]
            /\ saves' = [saves EXCEPT ![t] = saves[t] + 1]
            /\ syncStates' = [syncStates EXCEPT ![state[t].id].cursor =
                                 page[t].next_cursor]
       ELSE UNCHANGED << state, syncStates, saves >>
    /\ IF should_stop[t] \/ ~ page[t].has_more
       THEN /\ pc' = [pc EXCEPT ![t] = "complete"]
            /\ UNCHANGED cursor
       ELSE /\ cursor' = [cursor EXCEPT ![t] = page[t].next_cursor]
            /\ pc' = [pc EXCEPT ![t] = "fetch"]
    /\ UNCHANGED << client, telegram, walk, lock, customers, deals, messages, s3, max_date,
                    retries, page, idx, should_stop, existing_deal, txn, exc,
                    outcome, faults, failed, touched, wrote, rerun,
                    expiredLive, record_errors >>

(***************************************************************************)
(* The deal listing of the API.                                            *)
(***************************************************************************)
\* (mutant) the listing without its filter
AllDeals == DOMAIN deals

\* DealViewSet.get_queryset: filter(sync_status=COMPLETE,
\* customer__isnull=False) over the committed rows
DealListing ==
    { ext \in DOMAIN deals :
        deals[ext].sync_status = DEAL_COMPLETE /\ deals[ext].customer # NoKey }

\* DealManager.complete
CompleteDeals ==
    { ext \in DOMAIN deals : deals[ext].sync_status = DEAL_COMPLETE }

(***************************************************************************)
(* The specification.                                                      *)
(***************************************************************************)
Next ==
    \/ \E t \in Tasks : Start(t)
    \/ \E t \in Tasks : Restart(t)
    \/ \E t \in Tasks : Query(t)
    \/ \E t \in Tasks : Create(t)
    \/ \E t \in Tasks : SetRunning(t)
    \/ \E t \in Tasks : Fetch(t)
    \/ \E t \in Tasks : FetchFail(t)
    \/ \E t \in Tasks : Check(t)
    \/ \E t \in Tasks, avatar_ok \in BOOLEAN : GetOrCreateCustomer(t, avatar_ok)
    \/ \E t \in Tasks : CreateOrUpdateDeal(t)
    \/ \E t \in Tasks : SaveMessageToDynamodb(t)
    \/ \E t \in Tasks : Finalize(t)
    \/ \E t \in Tasks : RecordFail(t)
    \/ \E t \in Tasks : Handler(t)
    \/ \E t \in Tasks : IncrementProcessed(t)
    \/ \E t \in Tasks : EndPage(t)
    \/ \E t \in Tasks : Complete(t)
    \/ \E t \in Tasks : Except(t)
    \/ \E t \in Tasks : Release(t)
    \/ \E t \in Tasks : Crash(t)
    \/ LockExpire

Spec == Init /\ [][Next]_vars

(***************************************************************************)
(* The source of 25 records in pages of 10, an empty index, no fault.      *)
(***************************************************************************)
InitOf25 ==
    /\ client = [ total_chats |-> 25, page_size |-> 10 ]
    /\ customers = << >>
    /\ deals = << >>
    /\ messages = << >>
    /\ faults = 0
    /\ NothingStarted

\* the steps of Next that need no fault
NextWithoutFault ==
    \/ \E t \in Tasks : Start(t)
    \/ \E t \in Tasks : Query(t)
    \/ \E t \in Tasks : Create(t)
    \/ \E t \in Tasks : SetRunning(t)
    \/ \E t \in Tasks : Fetch(t)
    \/ \E t \in Tasks : Check(t)
    \/ \E t \in Tasks : GetOrCreateCustomer(t, TRUE)
    \/ \E t \in Tasks : CreateOrUpdateDeal(t)
    \/ \E t \in Tasks : SaveMessageToDynamodb(t)
    \/ \E t \in Tasks : Finalize(t)
    \/ \E t \in Tasks : IncrementProcessed(t)
    \/ \E t \in Tasks : EndPage(t)
    \/ \E t \in Tasks : Complete(t)
    \/ \E t \in Tasks : Release(t)

SpecOf25 == InitOf25 /\ [][NextWithoutFault]_vars

(***************************************************************************)
(* Any source, an empty index, and no statement of _sync_chat_atomic that  *)
(* raises: crashes, failed fetches, retries and lock expiries remain.      *)
(***************************************************************************)
InitEmptyIndex ==
    /\ client \in [ total_chats : 0..MaxChats, page_size : 1..MaxPageSize ]
    /\ customers = << >>
    /\ deals = << >>
    /\ messages = << >>
    /\ faults = MaxFaults
    /\ NothingStarted

\* the steps of Next but a record-level failure and its handler
NextWithoutRecordFailure ==
    \/ \E t \in Tasks : Start(t)
    \/ \E t \in Tasks : Restart(t)
    \/ \E t \in Tasks : Query(t)
    \/ \E t \in Tasks : Create(t)
    \/ \E t \in Tasks : SetRunning(t)
    \/ \E t \in Tasks : Fetch(t)
    \/ \E t \in Tasks : FetchFail(t)
    \/ \E t \in Tasks : Check(t)
    \/ \E t \in Tasks, avatar_ok \in BOOLEAN : GetOrCreateCustomer(t, avatar_ok)
    \/ \E t \in Tasks : CreateOrUpdateDeal(t)
    \/ \E t \in Tasks : SaveMessageToDynamodb(t)
    \/ \E t \in Tasks : Finalize(t)
    \/ \E t \in Tasks : IncrementProcessed(t)
    \/ \E t \in Tasks : EndPage(t)
    \/ \E t \in Tasks : Complete(t)
    \/ \E t \in Tasks : Except(t)
    \/ \E t \in Tasks : Release(t)
    \/ \E t \in Tasks : Crash(t)
    \/ LockExpire

SpecEmptyIndex == InitEmptyIndex /\ [][NextWithoutRecordFailure]_vars

(***************************************************************************)
(* The same program with a worker that goes on executing what it started,  *)
(* a lock whose TTL elapses and invocations that are started.              *)
(***************************************************************************)
InitLive ==
    /\ client = [ total_chats |-> MaxChats - 1, page_size |-> 1 ]
    /\ customers = << >>
    /\ deals = << >>
    /\ messages = << >>
    /\ faults = MaxFaults - 1
    /\ NothingStarted

SpecLive == InitLive /\ [][Next]_vars /\ WF_vars(Next)

(***************************************************************************)
(* The handlers of the Telegram Business updates, the other writer of the  *)
(* customers and deals tables and of the message store.  An update is      *)
(* handled in one step; updates are handled one after the other.           *)
(***************************************************************************)
\* the updates Telegram delivers: the business account, its connection (or
\* no business_connection_id), the chat with a customer, message ids,
\* texts and dates
TgAccounts == { 10 }
TgConnections == { << "bc", 1 >>, NoKey }
TgChats == { 1 }
TgMessageIds == { 1, 2 }
TgTexts == { "a", "b" }
TgDates == { 1, 2 }
TgDeletions == { << 1 >>, << 1, 2 >> }

\* f'tg_chat_{chat_data["id"]}_{business_connection_id}'
TgDealId(chat_id, connection_id) == << "tg_chat", chat_id, connection_id >>
\* f'tg_{customer_tg_id}'
TgCustomerId(tg_id) == << "tg", tg_id >>
\* first_name and last_name of the Telegram user
TgName(tg_id) == << "name", tg_id >>
\* str(data['message_id'])
TgMessageId(message_id) == << "id", message_id >>

\* MockMessageStore.delete_message
DeleteMessage(store, chat_id, message_id) ==
    [ k \in (DOMAIN store) \ { << chat_id, message_id >> } |-> store[k] ]

\* for msg_id in message_ids: message_store.delete_message(...)
RECURSIVE DeleteMessages(_, _, _)
DeleteMessages(store, chat_id, message_ids) ==
    IF message_ids = << >>
    THEN store
    ELSE DeleteMessages(DeleteMessage(store, chat_id,
                                      TgMessageId(Head(message_ids))),
                        chat_id, Tail(message_ids))

Max(a, b) == IF a > b THEN a ELSE b

engineState == << client, walk, lock, syncStates, s3, pc, max_date, retries, state,
                 cursor, page, idx, should_stop, existing_deal, txn, exc,
                 outcome, faults, failed, touched, wrote, rerun, expiredLive,
                 saves, record_errors >>

\* process_business_connection: the account and the connection are upserted
ProcessBusinessConnection(connection_id, user_id, is_enabled) ==
    /\ connection_id # NoKey
    /\ telegram' =
          [ telegram EXCEPT
              !.accounts = Put(@, user_id, [ is_bot_connected |-> is_enabled ]),
              !.connections =
                  Put(@, connection_id,
                      [ account |-> user_id,
                        status |-> IF is_enabled THEN "active"
                                   ELSE "disabled" ]) ]
    /\ UNCHANGED << engineState, customers, deals, messages >>

\* (mutant) the defaults of the deal leave out the customer
TgDealWithoutCustomer(ext, customer_id, message_id, date) ==
    [ customer |-> NoKey,
      last_message_id |-> TgMessageId(message_id),
      last_message_at |-> << date >>,
      total_messages |-> (IF ext \in DOMAIN deals
                          THEN deals[ext].total_messages ELSE 0) + 1,
      sync_status |-> DEAL_COMPLETE ]

\* the deal the message handler leaves: update_or_create with the defaults,
\* then total_messages += 1
TgDealAfter(ext, customer_id, message_id, date) ==
    [ customer |-> customer_id,
      last_message_id |-> TgMessageId(message_id),
      last_message_at |-> << date >>,
      total_messages |-> (IF ext \in DOMAIN deals
                          THEN deals[ext].total_messages ELSE 0) + 1,
      sync_status |-> DEAL_COMPLETE ]

\* process_business_message: customer, deal and chat link are upserted, the
\* message is stored and counted; without a known connection nothing is done
ProcessBusinessMessage(connection_id, chat_id, from_id, message_id, text, date) ==
    IF connection_id = NoKey \/ connection_id \notin DOMAIN telegram.connections
    THEN UNCHANGED vars
    ELSE LET is_outgoing ==
                 from_id = telegram.connections[connection_id].account
             customer_tg_id == IF is_outgoing THEN chat_id ELSE from_id
             cid == TgCustomerId(customer_tg_id)
             ext == TgDealId(chat_id, connection_id)
         IN  /\ ext \in DOMAIN deals
                   => deals[ext].total_messages < MaxDeliveries
             /\ customers' =
                   Put(customers, cid,
                       [ name |-> TgName(customer_tg_id),
                         avatar_url |-> NoKey,
                         avatar_s3_key |->
                             IF cid \in DOMAIN customers
                             THEN customers[cid].avatar_s3_key ELSE NoKey ])
             /\ deals' = Put(deals, ext,
                             TgDealAfter(ext, cid, message_id, date))
             /\ telegram' =
                   [ telegram EXCEPT
                       !.chats = IF ext \in DOMAIN @ THEN @
                                 ELSE Put(@, ext,
                                          [ connection |-> connection_id,
                                            telegram_chat_id |-> chat_id ]) ]
             /\ messages' = SaveMessage(messages, ext,
                                        TgMessageId(message_id), text, date)
             /\ UNCHANGED engineState

\* process_edited_message: the message of a known deal is stored again
ProcessEditedMessage(connection_id, chat_id, message_id, text, date) ==
    LET ext == TgDealId(chat_id, connection_id)
    IN  IF connection_id = NoKey \/ ext \notin DOMAIN deals
        THEN UNCHANGED vars
        ELSE /\ messages' = SaveMessage(messages, ext,
                                        TgMessageId(message_id), text, date)
             /\ UNCHANGED << engineState, telegram, customers, deals >>

\* process_deleted_messages: the messages of a known deal are removed and
\* total_messages is lowered by their number, not below 0
ProcessDeletedMessages(connection_id, chat_id, message_ids) ==
    LET ext == TgDealId(chat_id, connection_id)
    IN  IF connection_id = NoKey \/ ext \notin DOMAIN deals
        THEN UNCHANGED vars
        ELSE /\ messages' = DeleteMessages(messages, ext, message_ids)
             /\ deals' = [ deals EXCEPT ![ext].total_messages =
                             Max(0, @ - Len(message_ids)) ]
             /\ UNCHANGED << engineState, telegram, customers >>

\* no sync has run and no update has been delivered
InitWebhook ==
    /\ client = [ total_chats |-> 0, page_size |-> 1 ]
    /\ customers = << >>
    /\ deals = << >>
    /\ messages = << >>
    /\ faults = 0
    /\ NothingStarted

NextWebhook ==
    \/ \E c \in TgConnections, u \in TgAccounts, e \in BOOLEAN :
          ProcessBusinessConnection(c, u, e)
    \/ \E c \in TgConnections, chat \in TgChats, m \in TgMessageIds,
          text \in TgTexts, d \in TgDates :
          \E from \in TgAccounts \cup { chat } :
             ProcessBusinessMessage(c, chat, from, m, text, d)
    \/ \E c \in TgConnections, chat \in TgChats, m \in TgMessageIds,
          text \in TgTexts, d \in TgDates :
          ProcessEditedMessage(c, chat, m, text, d)
    \/ \E c \in TgConnections, chat \in TgChats, ids \in TgDeletions :
          ProcessDeletedMessages(c, chat, ids)

SpecWebhook == InitWebhook /\ [][NextWebhook]_vars

(***************************************************************************)
(* The mock source by itself: a caller follows next_cursor from the empty  *)
(* cursor, and cursors are decoded and page numbers encoded.               *)
(***************************************************************************)
\* the characters of the cursors probed: those the encoded page numbers are
\* made of, one that decodes to a sign, the pad, and one outside the alphabet
ProbeChars == { "M", "Q", "T", "A", "L", "=", "!" }

\* the cursors probed: up to MaxCursorLen characters
RECURSIVE CursorsOfLen(_)
CursorsOfLen(n) ==
    IF n = 0 THEN { << >> }
    ELSE { Append(x, ch) : x \in CursorsOfLen(n - 1), ch \in ProbeChars }

ProbeCursors == UNION { CursorsOfLen(n) : n \in 0..MaxCursorLen }

\* get_chats(cursor) with the cursor of the page before
FollowCursor ==
    /\ walk.more
    /\ Len(walk.pages) <= MaxChats
    /\ LET p == GetChats(client, walk.cursor)
       IN  walk' = [ walk EXCEPT
                       !.cursor = p.next_cursor,
                       !.more = p.has_more,
                       !.pages = Append(@, [ size |-> Len(p.chats),
                                             has_more |-> p.has_more,
                                             next_cursor |-> p.next_cursor ]),
                       !.visited = @ \o [ k \in 1..Len(p.chats) |->
                                              p.chats[k].external_id ] ]
    /\ UNCHANGED << client, telegram, lock, dbVars, pc, max_date, retries,
                    state, engineVars, exc, outcome, faults, touched, wrote,
                    rerun, expiredLive, saves, record_errors >>

\* _decode_cursor(c), before the caller begins
DecodeProbe ==
    /\ walk.probe = << >> /\ walk.pages = << >>
    /\ \E c \in ProbeCursors :
          walk' = [ walk EXCEPT !.probe = << c, DecodeCursor(c) >> ]
    /\ UNCHANGED << client, telegram, lock, dbVars, pc, max_date, retries,
                    state, engineVars, exc, outcome, faults, touched, wrote,
                    rerun, expiredLive, saves, record_errors >>

\* _decode_cursor(_encode_cursor(n)), before the caller begins
EncodeProbe ==
    /\ walk.probe = << >> /\ walk.pages = << >>
    /\ \E n \in 0..MaxPageNumber :
          walk' = [ walk EXCEPT !.probe = << EncodeCursor(n),
                                            DecodeCursor(EncodeCursor(n)), n >> ]
    /\ UNCHANGED << client, telegram, lock, dbVars, pc, max_date, retries,
                    state, engineVars, exc, outcome, faults, touched, wrote,
                    rerun, expiredLive, saves, record_errors >>

InitWalk ==
    /\ client \in [ total_chats : 0..MaxChats, page_size : 1..MaxPageSize ]
    /\ customers = << >>
    /\ deals = << >>
    /\ messages = << >>
    /\ faults = 0
    /\ NothingStarted

NextWalk == FollowCursor \/ DecodeProbe \/ EncodeProbe

SpecWalk == InitWalk /\ [][NextWalk]_vars

(***************************************************************************)
(* The task over a source whose fetches all succeed, with any index and    *)
(* any max_date argument; the worker goes on executing what it started.    *)
(***************************************************************************)
InitRun ==
    /\ client = [ total_chats |-> MaxChats - 1, page_size |-> 1 ]
    /\ \E ix \in InitialIndexes :
        /\ customers = ix.customers
        /\ deals = ix.deals
        /\ messages = ix.messages
    /\ faults = MaxFaults - 1
    /\ NothingStarted

\* the steps of Next but a failed fetch
NextWithoutFetchFailure ==
    \/ \E t \in Tasks : Start(t)
    \/ \E t \in Tasks : Restart(t)
    \/ \E t \in Tasks : Query(t)
    \/ \E t \in Tasks : Create(t)
    \/ \E t \in Tasks : SetRunning(t)
    \/ \E t \in Tasks : Fetch(t)
    \/ \E t \in Tasks : Check(t)
    \/ \E t \in Tasks, avatar_ok \in BOOLEAN : GetOrCreateCustomer(t, avatar_ok)
    \/ \E t \in Tasks : CreateOrUpdateDeal(t)
    \/ \E t \in Tasks : SaveMessageToDynamodb(t)
    \/ \E t \in Tasks : Finalize(t)
    \/ \E t \in Tasks : RecordFail(t)
    \/ \E t \in Tasks : Handler(t)
    \/ \E t \in Tasks : IncrementProcessed(t)
    \/ \E t \in Tasks : EndPage(t)
    \/ \E t \in Tasks : Complete(t)
    \/ \E t \in Tasks : Except(t)
    \/ \E t \in Tasks : Release(t)
    \/ \E t \in Tasks : Crash(t)
    \/ LockExpire

SpecRun ==
    InitRun /\ [][NextWithoutFetchFailure]_vars
            /\ WF_vars(NextWithoutFetchFailure)

(***************************************************************************)
(* Both writers of the deal table: the sync task over a source of one      *)
(* record and the handlers of the business updates, interleaved.           *)
(***************************************************************************)
InitBoth ==
    /\ client = [ total_chats |-> 1, page_size |-> 1 ]
    /\ \E ix \in InitialIndexes :
        /\ customers = ix.customers
        /\ deals = ix.deals
        /\ messages = ix.messages
    /\ faults = MaxFaults - 1
    /\ NothingStarted

\* the updates delivered while the sync runs: one text, one date
NextWebhookBrief ==
    \/ \E c \in TgConnections, u \in TgAccounts :
          ProcessBusinessConnection(c, u, TRUE)
    \/ \E c \in TgConnections, chat \in TgChats, m \in TgMessageIds :
          \E from \in TgAccounts \cup { chat } :
             ProcessBusinessMessage(c, chat, from, m, "a", 1)
    \/ \E c \in TgConnections, chat \in TgChats, m \in TgMessageIds :
          ProcessEditedMessage(c, chat, m, "b", 2)
    \/ \E c \in TgConnections, chat \in TgChats, ids \in TgDeletions :
          ProcessDeletedMessages(c, chat, ids)

NextBoth == Next \/ NextWebhookBrief

SpecBoth == InitBoth /\ [][NextBoth]_vars

(***************************************************************************)
(* Properties of the lock and of the run states.                           *)
(***************************************************************************)
\* the tasks between their start and their exit
LiveTasks == { t \in Tasks : Live(t) }

\* no lock key has been removed yet: no task has released, crashed or ended,
\* and the TTL has not elapsed
NoRemovalYet ==
    /\ ~ expiredLive
    /\ \A t \in Tasks : pc[t] \in LivePcs \cup { "idle", "skipped" }

\* C1: of the invocations started while no lock was held, exactly one takes
\* the lock and the others return 'skipped'; a skipped invocation has not
\* queried or created a run state, holds none, and its start left the run
\* states and the winner's lock as they were
C1_ExactlyOneAcquires ==
    /\ [](\A t \in Tasks :
            pc[t] = "skipped" => ~ touched[t] /\ state[t] = NoState)
    /\ []((NoRemovalYet /\ \E t \in Tasks : pc[t] # "idle") =>
            \E t \in Tasks :
              /\ Live(t)
              /\ lock = {t}
              /\ \A u \in Tasks \ {t} : pc[u] \in { "idle", "skipped" })
    /\ [][\A t \in Tasks :
            (pc[t] # "skipped" /\ pc'[t] = "skipped") =>
               /\ syncStates' = syncStates
               /\ lock' = lock
               /\ lock # NoLock]_vars

\* one invocation runs with the lock while the other has been skipped
C1_Witness ==
    \E t, u \in Tasks :
      /\ InEngine(t)
      /\ lock = {t}
      /\ pc[u] = "skipped"
      /\ NoRemovalYet

\* C2: as long as the TTL has not elapsed under a running holder, at most
\* one invocation is between taking the lock and releasing it
C2_MutualExclusion ==
    ~ expiredLive => Cardinality(LiveTasks) <= 1

\* a second invocation runs the engine after the first has completed
C2_Witness ==
    \E t, u \in Tasks :
      /\ pc[t] = "completed"
      /\ InEngine(u)
      /\ lock = {u}
      /\ ~ expiredLive

\* C3: at most one run state is PENDING or RUNNING
C3_AtMostOneIncomplete ==
    Cardinality(IncompleteStates) <= 1

\* what C3 does hold as long as no worker has died and the TTL has not
\* elapsed under a running holder
AtMostOneIncompleteWhileLocked ==
    (~ expiredLive /\ \A t \in Tasks : pc[t] # "crashed")
        => Cardinality(IncompleteStates) <= 1

(***************************************************************************)
(* Properties of resumption and of the cursor.                             *)
(***************************************************************************)
\* the rows of syncStates another task than t is working on
HeldByOthers(t) == { state[u].id : u \in { v \in Tasks \ {t} : Live(v) } }

\* C4: when the query of a lock-holding start finds a PENDING or RUNNING
\* row, no row is created: the engine is given that row as it is stored,
\* the first fetch is made at the row's cursor, and the cutoff and the
\* processed count the run works with are the row's, whatever max_date
\* the invocation was passed
C4_ResumesExistingRow ==
    /\ [][\A t \in Tasks :
            (/\ pc[t] = "query"
             /\ pc'[t] \notin { "query", "crashed" }
             /\ \E i \in 1..Len(syncStates) :
                    syncStates[i].status \in { PENDING, RUNNING }) =>
               /\ syncStates' = syncStates
               /\ pc'[t] = "setrunning"
               /\ state'[t].id \in 1..Len(syncStates)
               /\ syncStates[state'[t].id].status \in { PENDING, RUNNING }
               /\ state'[t].cursor = syncStates[state'[t].id].cursor
               /\ state'[t].max_date = syncStates[state'[t].id].max_date
               /\ state'[t].processed_chats
                      = syncStates[state'[t].id].processed_chats]_vars
    /\ [](\A t \in Tasks :
            (rerun[t] = "resumed" /\ pc[t] \in EnginePcs \cup { "setrunning" })
             =>
               /\ Len(syncStates) >= state[t].id
               /\ state[t].max_date = syncStates[state[t].id].max_date
               /\ (pc[t] = "fetch" /\ page[t] = NoPage)
                      => cursor[t] = state[t].cursor
               /\ (pc[t] = "check" /\ state[t].cursor # NoCursor
                     /\ state[t].cursor = cursor[t])
                      => page[t] = GetChats(client, state[t].cursor))

\* a resumed run has fetched the page at the row's cursor, with the row's
\* cutoff and not the one it was passed
C4_Witness ==
    \E t \in Tasks :
      /\ rerun[t] = "resumed"
      /\ pc[t] = "check"
      /\ state[t].cursor # NoCursor
      /\ cursor[t] = state[t].cursor
      /\ page[t] = GetChats(client, state[t].cursor)
      /\ MakeAware(ParseMaxDate(max_date[t])) # state[t].max_date
      /\ state[t].processed_chats > 0

\* the newest row the attempt of t found in the store (0: it found none)
LastPrior(t) ==
    IF rerun[t] = "resumed" \/ state[t] = NoState
    THEN Len(syncStates)
    ELSE state[t].id - 1

\* row i is of a run that was interrupted with a cursor persisted
Interrupted(t, i) ==
    /\ i \in 1..Len(syncStates)
    /\ syncStates[i].status \in { RUNNING, FAILED }
    /\ syncStates[i].cursor # NoCursor
    /\ i \notin HeldByOthers(t)

\* C5: the first fetch of a run that follows an interrupted run uses the
\* cursor the interrupted run persisted, and the run does not process a
\* record of a page before that cursor
C5_RestartUsesPersistedCursor ==
    \A t \in Tasks :
      (~ expiredLive /\ Interrupted(t, LastPrior(t))) =>
         /\ (pc[t] = "fetch" /\ page[t] = NoPage)
                => cursor[t] = syncStates[LastPrior(t)].cursor
         /\ pc[t] \in AtomicPcs
                => DecodeCursor(cursor[t])
                     >= DecodeCursor(syncStates[LastPrior(t)].cursor)

\* what does hold: a run found RUNNING (its worker died) is resumed at its
\* cursor
CrashedRunResumesAtCursor ==
    \A t \in Tasks :
      (/\ ~ expiredLive
       /\ Interrupted(t, LastPrior(t))
       /\ syncStates[LastPrior(t)].status = RUNNING
       /\ pc[t] = "fetch" /\ page[t] = NoPage)
          => cursor[t] = syncStates[LastPrior(t)].cursor

\* the records of page[t] the page loop has attempted
Attempted(t) == idx[t] + (IF should_stop[t] THEN 1 ELSE 0)

\* the run state of t holds the next_cursor of the page t has fetched
CursorAdvanced(t) ==
    /\ Live(t)
    /\ state[t] # NoState
    /\ page[t] # NoPage
    /\ page[t].next_cursor # NoCursor
    /\ state[t].cursor = page[t].next_cursor

\* C6 (as stated): the cursor is never advanced to the next_cursor of a
\* page while a record of that page has not been attempted
C6_CursorAfterLastRecord ==
    \A t \in Tasks :
      CursorAdvanced(t) => Attempted(t) = Len(page[t].chats)

\* C6: the next_cursor of a page is written only once the record loop of
\* the page has ended, every record attempted or a record having stopped
\* the run, and it has been written when the next fetch is issued
C6_CursorAfterPageLoop ==
    /\ [][\A t \in Tasks :
            (state[t] # NoState /\ state'[t] # NoState
               /\ state'[t].cursor # state[t].cursor) =>
               /\ pc[t] = "endpage"
               /\ should_stop[t] \/ idx[t] = Len(page[t].chats)
               /\ state'[t].cursor = page[t].next_cursor
               /\ syncStates'[state[t].id].cursor = page[t].next_cursor]_vars
    /\ [](\A t \in Tasks :
            (pc[t] = "fetch" /\ page[t] # NoPage) =>
               /\ page[t].next_cursor # NoCursor
               /\ idx[t] = Len(page[t].chats)
               /\ state[t].cursor = page[t].next_cursor
               /\ cursor[t] = page[t].next_cursor)

\* the next fetch is about to be issued after a page of two records
C6_Witness ==
    \E t \in Tasks :
      /\ pc[t] = "fetch"
      /\ page[t] # NoPage
      /\ Len(page[t].chats) = 2
      /\ state[t].cursor = page[t].next_cursor

\* C7: once the record loop of a page that carries a next_cursor has
\* finished, the cursor is persisted, whether or not records of the page
\* failed
C7_CursorPersistedDespiteFailures ==
    \A t \in Tasks :
      (/\ pc[t] \in { "fetch", "complete" }
       /\ page[t] # NoPage
       /\ page[t].next_cursor # NoCursor) =>
          /\ state[t].cursor = page[t].next_cursor
          /\ ~ expiredLive =>
                 syncStates[state[t].id].cursor = page[t].next_cursor

\* every record of the page failed and the cursor has been persisted
C7_Witness ==
    \E t \in Tasks :
      /\ pc[t] = "fetch"
      /\ page[t] # NoPage
      /\ Len(page[t].chats) > 0
      /\ failed[t] = Len(page[t].chats)
      /\ syncStates[state[t].id].cursor = page[t].next_cursor

(***************************************************************************)
(* Properties of the per-record protocol.                                  *)
(***************************************************************************)
\* C8: the listing returns only deals that are COMPLETE and have a
\* customer: a deal a failure left FAILED, or one a transaction still holds
\* PENDING, is not in it, and what it returns has its customer row and its
\* last message stored
C8_ListingOnlyComplete ==
    \A ext \in DealListing :
      /\ deals[ext].sync_status = DEAL_COMPLETE
      /\ deals[ext].customer # NoKey
      /\ deals[ext].customer \in DOMAIN customers
      /\ << ext, deals[ext].last_message_id >> \in DOMAIN messages

\* the listing returns a deal while one deal is FAILED and the deal of the
\* record in progress is PENDING inside its transaction
C8_Witness ==
    /\ DealListing # { }
    /\ \E ext \in DOMAIN deals : deals[ext].sync_status = DEAL_FAILED
    /\ \E t \in Tasks :
         /\ pc[t] = "document"
         /\ txn[t].deals[CurrentChat(t).external_id].sync_status = DEAL_PENDING
         /\ CurrentChat(t).external_id \notin DealListing

\* C9: a deal committed COMPLETE with last_message_id m has the document
\* (external_id, m) in the message store: its write came first
C9_CompleteImpliesDocument ==
    /\ [](\A ext \in DOMAIN deals :
            deals[ext].sync_status = DEAL_COMPLETE =>
               << ext, deals[ext].last_message_id >> \in DOMAIN messages)
    /\ [][\A ext \in DOMAIN deals' :
            (/\ deals'[ext].sync_status = DEAL_COMPLETE
             /\ ext \in DOMAIN deals =>
                    \/ deals[ext].sync_status # DEAL_COMPLETE
                    \/ deals[ext].last_message_id
                           # deals'[ext].last_message_id) =>
               << ext, deals'[ext].last_message_id >> \in DOMAIN messages]_vars

\* the engine has committed a deal COMPLETE after a step of another record
\* had failed
C9_Witness ==
    \E t \in Tasks :
      /\ pc[t] = "increment"
      /\ failed[t] > 0
      /\ deals[CurrentChat(t).external_id].sync_status = DEAL_COMPLETE
      /\ deals[CurrentChat(t).external_id].last_message_id
             = CurrentChat(t).last_message.message_id
      /\ << CurrentChat(t).external_id, CurrentChat(t).last_message.message_id >>
             \in DOMAIN messages

Decides(t) == pc[t] = "check" /\ pc'[t] \notin { "check", "crashed" }

FirstRun(t) ==
    /\ rerun[t] = "first"
    /\ state[t].id = 1
    /\ state[t].max_date = NoDate

\* t is about to return from that run
FirstRunCompleted(t) ==
    /\ FirstRun(t)
    /\ pc[t] = "release"
    /\ outcome[t] = "completed"

\* the pages of the source: ceil(total_chats / page_size), one if it is empty
NumPages ==
    IF client.total_chats = 0 THEN 1
    ELSE (client.total_chats + client.page_size - 1) \div client.page_size

DocumentFailures(t) == { e \in record_errors[t] : e[2] = "document" }

\* t is about to return from the first run there has been, made without a
\* cutoff, in which the protocol raised for one record, at its document write
OneDocumentFailure(t) ==
    /\ FirstRunCompleted(t)
    /\ ~ expiredLive
    /\ Cardinality(record_errors[t]) = 1
    /\ DocumentFailures(t) = record_errors[t]

\* the external ids of the source records
SourceIds == { GenerateChat(i).external_id : i \in 0..(client.total_chats - 1) }

\* C13: after a run in which the document write raised for one record, a
\* deal of that record exists with sync_status FAILED, the deals of the other
\* records are COMPLETE, the run state is COMPLETED and processed_chats
\* counts the other records only
C13_FailedRecordIsMarked ==
    \A t \in Tasks :
      OneDocumentFailure(t) =>
         /\ \A e \in DocumentFailures(t) :
              /\ e[1] \in DOMAIN deals
              /\ deals[e[1]].sync_status = DEAL_FAILED
         /\ \A ext \in SourceIds :
              (\A e \in DocumentFailures(t) : e[1] # ext) =>
                 ext \in DOMAIN deals /\ deals[ext].sync_status = DEAL_COMPLETE
         /\ syncStates[state[t].id].status = COMPLETED
         /\ syncStates[state[t].id].processed_chats = client.total_chats - 1

\* what the code does for that record: its deal is FAILED if it had one
\* before the run, and it has none if the run was to create it - the insert
\* is rolled back with the transaction; the rest is as C13 says
DocumentFailureOutcome ==
    \A t \in Tasks :
      OneDocumentFailure(t) =>
         /\ \A e \in DocumentFailures(t) :
              IF e[1] \in DOMAIN deals
              THEN /\ deals[e[1]].sync_status = DEAL_FAILED
                   /\ deals[e[1]].last_message_id = OldMessage.message_id
              ELSE TRUE
         /\ \A ext \in SourceIds :
              (\A e \in DocumentFailures(t) : e[1] # ext) =>
                 ext \in DOMAIN deals /\ deals[ext].sync_status = DEAL_COMPLETE
         /\ syncStates[state[t].id].status = COMPLETED
         /\ syncStates[state[t].id].processed_chats = client.total_chats - 1

\* the document write raised for a record that had a deal: it is FAILED
MarkedFailedReached ==
    \E t \in Tasks :
      /\ OneDocumentFailure(t)
      /\ \E e \in DocumentFailures(t) :
           e[1] \in DOMAIN deals /\ deals[e[1]].sync_status = DEAL_FAILED

\* t is at the first record of the first page of a new run without a cutoff
AtFirstRecord(t) ==
    /\ rerun[t] \notin { "", "resumed" }
    /\ state[t].max_date = NoDate
    /\ cursor[t] = NoCursor
    /\ page[t] # NoPage
    /\ idx[t] = 0

\* C14: a new run without a cutoff whose first record is of a deal that
\* holds the record's message id is stopped by the check of that record:
\* nothing is written to customers, deals, messages or avatars,
\* processed_chats stays 0, no other page is fetched, and the run ends
\* COMPLETED
C14_UnchangedFirstRecordStops ==
    /\ [][\A t \in Tasks :
            (/\ Decides(t)
             /\ AtFirstRecord(t)
             /\ CurrentChat(t).external_id \in DOMAIN deals
             /\ deals[CurrentChat(t).external_id].last_message_id
                   = CurrentChat(t).last_message.message_id) =>
               /\ should_stop'[t]
               /\ pc'[t] = "endpage"
               /\ << customers, deals, messages, s3 >>'
                     = << customers, deals, messages, s3 >>]_vars
    /\ [](\A t \in Tasks :
            (AtFirstRecord(t) /\ should_stop[t]) =>
               /\ ~ wrote[t]
               /\ state[t].processed_chats = 0
               /\ pc[t] \in { "endpage", "complete", "release" }
               /\ pc[t] = "release" =>
                     /\ outcome[t] = "completed"
                     /\ ~ expiredLive =>
                          /\ syncStates[state[t].id].status = COMPLETED
                          /\ syncStates[state[t].id].processed_chats = 0)

\* the run has ended COMPLETED at the first record, with pages left unfetched
C14_Witness ==
    \E t \in Tasks :
      /\ AtFirstRecord(t)
      /\ should_stop[t]
      /\ pc[t] = "release"
      /\ page[t].has_more
      /\ syncStates[state[t].id].status = COMPLETED
      /\ deals[CurrentChat(t).external_id].last_message_id
            = CurrentChat(t).last_message.message_id

\* t takes a step of its own
Steps(t) == pc'[t] # pc[t] /\ pc'[t] # "crashed"

\* C15: a step of the per-record protocol that raises, and the handling of
\* it, leave the status of the run state alone and keep the run in the page
\* loop: the handler moves on to the next record of the page or to the end
\* of the page without stopping the run, the end of a page that was not
\* stopped and has a successor goes on to fetch it, and the run is stopped
\* only by the check of a record older than the cutoff or unchanged
C15_RecordFailureDoesNotEndRun ==
    /\ [][\A t \in Tasks :
            /\ (pc[t] \in AtomicPcs \cup { "handler" } /\ Steps(t)) =>
                  /\ pc'[t] \in AtomicPcs
                        \cup { "handler", "increment", "check", "endpage" }
                  /\ state'[t].status = RUNNING
                  /\ syncStates'[state[t].id].status
                        = syncStates[state[t].id].status
                  /\ syncStates'[state[t].id].error_message
                        = syncStates[state[t].id].error_message
            /\ (pc[t] = "handler" /\ Steps(t)) =>
                  /\ idx'[t] = idx[t] + 1
                  /\ ~ should_stop'[t]
                  /\ pc'[t] = IF idx'[t] < Len(page[t].chats)
                              THEN "check" ELSE "endpage"
            /\ (pc[t] = "endpage" /\ Steps(t)
                  /\ ~ should_stop[t] /\ page[t].has_more) =>
                  /\ pc'[t] = "fetch"
                  /\ cursor'[t] = page[t].next_cursor
            /\ (should_stop'[t] /\ ~ should_stop[t]) =>
                  /\ pc[t] = "check"
                  /\ \/ /\ state[t].max_date # NoDate
                        /\ CurrentChat(t).last_message.created_at
                              < state[t].max_date[1]
                     \/ /\ CurrentChat(t).external_id \in DOMAIN deals
                        /\ deals[CurrentChat(t).external_id].last_message_id
                              = CurrentChat(t).last_message.message_id]_vars
    /\ [](\A t \in Tasks :
            pc[t] = "complete" =>
               /\ should_stop[t] \/ ~ page[t].has_more
               /\ ~ should_stop[t] => idx[t] = Len(page[t].chats))

\* a record of an earlier page failed and the run, still RUNNING, is
\* processing a record of a later page
C15_Witness ==
    \E t \in Tasks :
      /\ record_errors[t] # { }
      /\ failed[t] = 0
      /\ cursor[t] # NoCursor
      /\ pc[t] \in AtomicPcs
      /\ syncStates[state[t].id].status = RUNNING
      /\ \A e \in record_errors[t] : e[1] # CurrentChat(t).external_id

(***************************************************************************)
(* Properties of run-level failures, of the lock and of the status of a    *)
(* run state.                                                              *)
(***************************************************************************)
\* the attempt of t holds a run state and ended in the except clause
FailedWithState(t) ==
    /\ pc[t] = "release"
    /\ outcome[t] \in { "retry", "gaveup" }
    /\ state[t] # NoState

\* C16: an exception of run() always reaches the except clause of the task
\* with its text; the clause saves the run state the attempt holds as FAILED
\* with that text, and the attempt then exits with its row FAILED and the
\* text in error_message, neither RUNNING nor COMPLETED (no other attempt
\* writes the row meanwhile as long as the lock did not expire under a
\* running holder)
C16_RunLevelErrorMarksFailed ==
    /\ [][\A t \in Tasks :
            /\ (pc[t] \in EnginePcs /\ exc'[t] # "" /\ exc[t] = "") =>
                  pc'[t] = "except" /\ state'[t] # NoState
            /\ (pc[t] = "except" /\ Steps(t) /\ state[t] # NoState) =>
                  /\ exc[t] # ""
                  /\ pc'[t] = "release"
                  /\ syncStates'[state[t].id].status = FAILED
                  /\ syncStates'[state[t].id].error_message = exc[t]]_vars
    /\ [](\A t \in Tasks :
            (FailedWithState(t) /\ ~ expiredLive) =>
               /\ syncStates[state[t].id].status = FAILED
               /\ syncStates[state[t].id].error_message = exc[t]
               /\ exc[t] # "")

\* an attempt whose page fetch failed is about to exit, its row FAILED
C16_Witness ==
    \E t \in Tasks :
      /\ FailedWithState(t)
      /\ exc[t] = "Simulated API failure"
      /\ syncStates[state[t].id].status = FAILED
      /\ syncStates[state[t].id].error_message = "Simulated API failure"

\* the attempt of t is one Celery re-queued, past _get_or_create_sync_state
Retried(t) ==
    /\ retries[t] > 0
    /\ outcome[t] = ""
    /\ pc[t] \in LivePcs \ { "query", "create" }

\* C17: the attempt re-queued after a run-level failure works on the run
\* state its task id created, and its first fetch uses the cursor of that row
C17_RetryContinuesOnSameRow ==
    \A t \in Tasks :
      Retried(t) =>
         /\ state[t] # NoState
         /\ syncStates[state[t].id].task_id = t
         /\ state[t].processed_chats = syncStates[state[t].id].processed_chats
         /\ (pc[t] = "fetch" /\ page[t] = NoPage)
               => cursor[t] = syncStates[state[t].id].cursor

\* what does hold: _get_or_create_sync_state of a re-queued attempt returns
\* a row it found PENDING or RUNNING, or fails on the unique task_id without
\* adding a row, or adds a new row with no cursor and no processed record;
\* it never returns a FAILED row
RetryNeverResumesFailedRow ==
    [][\A t \in Tasks :
         (retries[t] > 0 /\ pc[t] \in { "query", "create" } /\ Steps(t)) =>
            \/ pc[t] = "query" /\ pc'[t] = "create" /\ syncStates' = syncStates
            \/ /\ pc[t] = "query" /\ pc'[t] = "setrunning"
               /\ syncStates' = syncStates
               /\ syncStates[state'[t].id].status \in { PENDING, RUNNING }
            \/ /\ pc[t] = "create" /\ pc'[t] = "except"
               /\ exc'[t] = "IntegrityError"
               /\ state'[t] = NoState
               /\ syncStates' = syncStates
            \/ /\ pc[t] = "create" /\ pc'[t] = "setrunning"
               /\ Len(syncStates') = Len(syncStates) + 1
               /\ state'[t].id = Len(syncStates')
               /\ state'[t].cursor = NoCursor
               /\ state'[t].processed_chats = 0]_vars

\* the re-queued attempt is in the except clause without a run state, while
\* the row of its first attempt is FAILED with a cursor persisted
RetryFailedAtCreate ==
    \E t \in Tasks :
      /\ Retried(t)
      /\ pc[t] = "except"
      /\ exc[t] = "IntegrityError"
      /\ state[t] = NoState
      /\ \E i \in 1..Len(syncStates) :
            /\ syncStates[i].task_id = t
            /\ syncStates[i].status = FAILED
            /\ syncStates[i].cursor # NoCursor

\* the attempt of t has exited: it returned or raised
Exited(t) == pc[t] \in { "completed", "retry", "gaveup" }

\* C18: an attempt that took the lock exits only through the finally
\* clause, which leaves no lock key, on the return of 'completed' and on the
\* raise alike; the key never names an invocation that has exited, and an
\* invocation that starts while there is no key takes the lock
C18_ExitRemovesLock ==
    /\ [][\A t \in Tasks :
            /\ (pc'[t] \in { "completed", "retry", "gaveup" }
                  /\ pc'[t] # pc[t]) =>
                  /\ pc[t] = "release"
                  /\ lock' = NoLock
            /\ (pc[t] \in { "complete", "except" } /\ Steps(t)) =>
                  pc'[t] = "release"
            /\ (pc[t] \in { "idle", "retry" } /\ Steps(t) /\ lock = NoLock) =>
                  /\ pc'[t] = "query"
                  /\ lock' = {t}]_vars
    /\ [](\A t \in lock : ~ Exited(t) /\ pc[t] # "skipped")

\* an attempt that raised has exited, its run state FAILED, and another
\* invocation has taken the lock
C18_Witness ==
    /\ \E t, u \in Tasks :
         /\ t # u
         /\ pc[t] \in { "retry", "gaveup" }
         /\ lock = {u}
         /\ pc[u] = "query"
    /\ \E i \in 1..Len(syncStates) : syncStates[i].status = FAILED

\* the changes of status the life cycle of a run state allows
StatusPath == { << PENDING, RUNNING >>, << RUNNING, COMPLETED >>,
                << RUNNING, FAILED >> }

\* row i is created PENDING by this step, or keeps its status, or changes it
\* along StatusPath
StatusStep(i) ==
    IF i > Len(syncStates)
    THEN syncStates'[i].status = PENDING
    ELSE \/ syncStates'[i].status = syncStates[i].status
         \/ << syncStates[i].status, syncStates'[i].status >> \in StatusPath

\* C19: every run state is created PENDING and its status only ever changes
\* from PENDING to RUNNING and from RUNNING to COMPLETED or FAILED
C19_StatusLifecycle ==
    [][\A i \in 1..Len(syncStates') : StatusStep(i)]_vars

\* what does hold: the same as long as the lock did not expire under a
\* running holder
StatusLifecycleWhileLocked ==
    [][~ expiredLive' => \A i \in 1..Len(syncStates') : StatusStep(i)]_vars

(***************************************************************************)
(* Properties of the counterparty rows.                                    *)
(***************************************************************************)
\* the customer rows the open transaction of t has inserted, uncommitted
PendingCustomers(t) == IF txn[t].open THEN DOMAIN txn[t].customers ELSE { }

\* C20: _get_or_create_customer for an external_id that has a row inserts
\* nothing and writes neither the row nor the avatar store; no step of a run
\* removes a customer row or changes its name, avatar_url or avatar_s3_key;
\* and no insert is ever pending for an external_id that has a row or has an
\* insert pending in another transaction, so that each external_id has one
\* row at most
C20_ExistingCustomerUntouched ==
    /\ [][\A t \in Tasks :
            (/\ pc[t] = "customer" /\ Steps(t) /\ pc'[t] # "handler"
             /\ CurrentChat(t).customer.external_id \in DOMAIN customers) =>
               /\ pc'[t] = "deal"
               /\ customers' = customers
               /\ txn'[t].customers = txn[t].customers
               /\ s3' = s3]_vars
    /\ [][\A e \in DOMAIN customers :
            e \in DOMAIN customers' /\ customers'[e] = customers[e]]_vars
    /\ [](\A t \in Tasks :
            /\ PendingCustomers(t) \cap DOMAIN customers = { }
            /\ \A u \in Tasks \ {t} :
                  PendingCustomers(t) \cap PendingCustomers(u) = { })

\* the engine has resolved the counterparty of a record whose row exists
\* with another name and another avatar_url than the record carries
C20_Witness ==
    \E t \in Tasks :
      /\ pc[t] = "deal"
      /\ LET c == CurrentChat(t).customer
         IN  /\ c.external_id \in DOMAIN customers
             /\ customers[c.external_id].name # c.name
             /\ customers[c.external_id].avatar_url # c.avatar_url
             /\ customers[c.external_id].avatar_s3_key = NoKey
      /\ PendingCustomers(t) = { }

\* the avatar key of a customer
AvatarKey(external_id) == << "avatars", external_id >>

\* C21: the avatar store is written only by _get_or_create_customer creating
\* the row of a record that carries an avatar_url, with the key of that
\* customer; and the step that creates a row goes on to the deal, inside the
\* same open transaction and with no exception, whether the avatar was
\* stored (the row holds its key) or the download or upload failed (the row
\* holds no key and the store is as before)
C21_AvatarOnlyForNewCustomer ==
    /\ [][s3' # s3 =>
            \E t \in Tasks :
              LET c == CurrentChat(t).customer
              IN  /\ pc[t] = "customer" /\ pc'[t] = "deal"
                  /\ c.external_id \notin DOMAIN customers
                  /\ c.external_id \notin DOMAIN txn[t].customers
                  /\ c.external_id \in DOMAIN txn'[t].customers
                  /\ c.avatar_url # NoKey
                  /\ s3' = s3 \cup { AvatarKey(c.external_id) }]_vars
    /\ [][\A t \in Tasks :
            LET c == CurrentChat(t).customer
            IN  (/\ pc[t] = "customer" /\ Steps(t)
                 /\ c.external_id \in DOMAIN txn'[t].customers) =>
                   /\ pc'[t] = "deal"
                   /\ txn'[t].open
                   /\ exc'[t] = exc[t]
                   /\ state'[t] = state[t]
                   /\ failed'[t] = failed[t]
                   /\ record_errors'[t] = record_errors[t]
                   /\ idx'[t] = idx[t]
                   /\ txn'[t].customers[c.external_id].name = c.name
                   /\ txn'[t].customers[c.external_id].avatar_url
                         = c.avatar_url
                   /\ \/ /\ txn'[t].customers[c.external_id].avatar_s3_key
                               = AvatarKey(c.external_id)
                         /\ AvatarKey(c.external_id) \in s3'
                      \/ /\ txn'[t].customers[c.external_id].avatar_s3_key
                               = NoKey
                         /\ s3' = s3]_vars

\* a record whose avatar could not be stored has been finalized COMPLETE and
\* counted, with no record failure in the attempt
C21_Witness ==
    \E t \in Tasks :
      /\ pc[t] \in { "check", "endpage" }
      /\ record_errors[t] = { }
      /\ state[t].processed_chats > 0
      /\ \E ext \in DOMAIN deals :
           /\ deals[ext].sync_status = DEAL_COMPLETE
           /\ deals[ext].customer \in DOMAIN customers
           /\ customers[deals[ext].customer].avatar_s3_key = NoKey
           /\ customers[deals[ext].customer].avatar_url # NoKey
           /\ customers[deals[ext].customer].name # OldCustomer.name
           /\ AvatarKey(deals[ext].customer) \notin s3
           /\ ext # GenerateChat(0).external_id

(***************************************************************************)
(* Properties of the page loop.                                            *)
(***************************************************************************)
\* the stores the engine writes records to
indexVars == << customers, deals, messages, s3 >>

\* C22: a fetch that fails takes run() straight to the except clause of the
\* task with the error of get_chats, writing nothing; from there the attempt
\* only saves its state FAILED and releases the lock: it fetches no page and
\* processes no record again, and its run state holds, up to the exit, the
\* cursor and the processed count it held at the fetch
C22_FetchFailurePropagates ==
    /\ [][\A t \in Tasks :
            /\ (pc[t] = "fetch" /\ Steps(t) /\ exc'[t] # exc[t]) =>
                  /\ pc'[t] = "except"
                  /\ exc'[t] = "Simulated API failure"
                  /\ syncStates' = syncStates
                  /\ state'[t] = state[t]
                  /\ cursor'[t] = cursor[t]
                  /\ indexVars' = indexVars
            /\ (pc[t] = "except" /\ Steps(t)) =>
                  /\ pc'[t] = "release"
                  /\ exc'[t] = exc[t]
                  /\ indexVars' = indexVars
                  /\ state[t] # NoState =>
                        /\ syncStates'[state[t].id].cursor
                              = syncStates[state[t].id].cursor
                        /\ syncStates'[state[t].id].processed_chats
                              = syncStates[state[t].id].processed_chats
                        /\ syncStates'[state[t].id].error_message = exc[t]
            /\ (pc[t] = "release" /\ Steps(t)) =>
                  /\ pc'[t] = outcome[t]
                  /\ syncStates' = syncStates
                  /\ indexVars' = indexVars]_vars
    /\ [](\A t \in Tasks :
            (/\ pc[t] \in { "except", "release" }
             /\ exc[t] = "Simulated API failure"
             /\ ~ expiredLive) =>
               /\ state[t] # NoState
               /\ syncStates[state[t].id].cursor = state[t].cursor
               /\ syncStates[state[t].id].processed_chats
                     = state[t].processed_chats
               /\ state[t].cursor = cursor[t] \/ cursor[t] = NoCursor)

\* the fetch of a later page failed after records were processed and a
\* cursor was saved: the attempt is about to exit with both still in its row
C22_Witness ==
    \E t \in Tasks :
      /\ pc[t] = "release"
      /\ exc[t] = "Simulated API failure"
      /\ state[t] # NoState
      /\ syncStates[state[t].id].status = FAILED
      /\ syncStates[state[t].id].cursor # NoCursor
      /\ syncStates[state[t].id].cursor = cursor[t]
      /\ syncStates[state[t].id].processed_chats > 0

\* C23: run() returns exactly from the end of a page on which a record said
\* stop or which has no successor, and goes on to fetch the next page from
\* every other; once a record has said stop the attempt writes nothing to
\* the index, looks at no further record and fetches no further page
C23_RunEndsOnStopOrLastPage ==
    /\ [][\A t \in Tasks :
            /\ (pc'[t] = "complete" /\ pc[t] # "complete") =>
                  /\ pc[t] = "endpage"
                  /\ should_stop[t] \/ ~ page[t].has_more
            /\ (pc[t] = "endpage" /\ Steps(t)) =>
                  pc'[t] = IF should_stop[t] \/ ~ page[t].has_more
                           THEN "complete" ELSE "fetch"
            /\ (should_stop[t] /\ Steps(t)) =>
                  /\ pc'[t] \in { "complete", "release", "completed" }
                  /\ indexVars' = indexVars
                  /\ idx'[t] = idx[t] \/ pc[t] = "release"
                  /\ page'[t] = page[t] \/ pc[t] = "release"]_vars
    /\ [](\A t \in Tasks :
            should_stop[t] =>
               /\ pc[t] \in { "endpage", "complete", "release" }
               /\ idx[t] < Len(page[t].chats)
               /\ exc[t] = "")

\* run() has returned after the first record of a page said stop, with
\* another record on the page and another page in the source
C23_Witness ==
    \E t \in Tasks :
      /\ pc[t] = "complete"
      /\ should_stop[t]
      /\ idx[t] + 1 < Len(page[t].chats)
      /\ page[t].has_more

(***************************************************************************)
(* Properties of the document store and of message_count.                  *)
(***************************************************************************)
\* the message the source holds for the record with this external_id
SourceMessage(ext) == GenerateChat(ext[2]).last_message

\* the document store holds the message of the record, and the index holds
\* no COMPLETE deal with that message as its last
Orphaned(ext) ==
    /\ << ext, SourceMessage(ext).message_id >> \in DOMAIN messages
    /\ ~ /\ ext \in DOMAIN deals
         /\ deals[ext].sync_status = DEAL_COMPLETE
         /\ deals[ext].last_message_id = SourceMessage(ext).message_id

\* C24: a finalize that raises rolls the deal back and leaves the document
\* store as it is; for the rest of the attempt the document of that record
\* is in the store while no COMPLETE deal holds its message id, and the page
\* loop moves on to the next record
C24_FinalizeFailureOrphansDocument ==
    /\ [][\A t \in Tasks :
            (pc[t] = "finalize" /\ Steps(t) /\ pc'[t] # "increment") =>
               /\ pc'[t] = "handler"
               /\ messages' = messages
               /\ deals' = deals
               /\ customers' = customers
               /\ ~ txn'[t].open
               /\ exc'[t] = exc[t]]_vars
    /\ [][\A t \in Tasks :
            (/\ pc[t] = "handler" /\ Steps(t)
             /\ << CurrentChat(t).external_id, "finalize" >>
                   \in record_errors[t]) =>
               /\ pc'[t] = IF idx[t] + 1 < Len(page[t].chats)
                           THEN "check" ELSE "endpage"
               /\ idx'[t] = idx[t] + 1
               /\ messages' = messages
               /\ exc'[t] = exc[t]]_vars
    /\ [](\A t \in Tasks : \A e \in record_errors[t] :
            e[2] = "finalize" => Orphaned(e[1]))

\* after a finalize that raised for a record of the page, the next record
\* is being processed and the document of the failed one is orphaned
C24_Witness ==
    \E t \in Tasks :
      /\ pc[t] \in AtomicPcs
      /\ \E e \in record_errors[t] :
           /\ e[2] = "finalize"
           /\ e[1] # CurrentChat(t).external_id
           /\ Orphaned(e[1])

\* the keys of the store the handlers write
TgKeys == { << TgDealId(chat, c), TgMessageId(m) >> :
              chat \in TgChats, c \in TgConnections \ { NoKey },
              m \in TgMessageIds }

\* C25: on every store the handlers produce, saving a key and then saving
\* it again gives the store that the second save alone gives: the key holds
\* the text and the timestamp written last, every other key is as before,
\* no key but this one is added, and saving the same item again changes
\* nothing
C25_SaveMessageIsUpsert ==
    \A k \in TgKeys : \A t1, t2 \in TgTexts : \A d1, d2 \in TgDates :
       LET once == SaveMessage(messages, k[1], k[2], t2, d2)
           twice == SaveMessage(SaveMessage(messages, k[1], k[2], t1, d1),
                                k[1], k[2], t2, d2)
       IN  /\ twice = once
           /\ DOMAIN twice = (DOMAIN messages) \cup { k }
           /\ twice[k] = [ text |-> t2, created_at |-> IsoFormat(d2) ]
           /\ \A o \in (DOMAIN messages) \ { k } : twice[o] = messages[o]
           /\ SaveMessage(twice, k[1], k[2], t2, d2) = twice

\* a message the message handler stored has been stored again by an edit
\* with another text and date: the store holds the edit, and the other
\* message of the deal is stored too
C25_Witness ==
    \E k \in TgKeys :
      /\ k \in DOMAIN messages
      /\ k[1] \in DOMAIN deals
      /\ deals[k[1]].last_message_id = k[2]
      /\ deals[k[1]].total_messages = 2
      /\ messages[k].created_at # IsoFormat(deals[k[1]].last_message_at[1])
      /\ Cardinality({ o \in DOMAIN messages : o[1] = k[1] }) = 2

\* C26: no step of either writer lowers the total_messages of a deal or
\* removes the deal
C26_MessageCountNeverDecreases ==
    [][\A e \in DOMAIN deals :
         /\ e \in DOMAIN deals'
         /\ deals'[e].total_messages >= deals[e].total_messages]_vars

\* what does hold: a step that lowers a count is one of
\* process_deleted_messages, which writes nothing else to the tables
OnlyDeletionLowersCount ==
    [][(\E e \in DOMAIN deals :
          deals'[e].total_messages < deals[e].total_messages)
       => /\ telegram' = telegram
          /\ customers' = customers
          /\ DOMAIN deals' = DOMAIN deals
          /\ \A e \in DOMAIN deals :
               deals' [e] = [ deals[e] EXCEPT
                               !.total_messages = deals'[e].total_messages ]]_vars

\* deal e is left with the customer, last message and status it has, and
\* with a count that is not lower
SameButCount(e) ==
    /\ e \in DOMAIN deals'
    /\ deals'[e].customer = deals[e].customer
    /\ deals'[e].last_message_id = deals[e].last_message_id
    /\ deals'[e].last_message_at = deals[e].last_message_at
    /\ deals'[e].sync_status = deals[e].sync_status
    /\ deals'[e].total_messages >= deals[e].total_messages

\* C27: the delivery of a business message whose customer, deal fields,
\* chat link and stored message are already what the handler writes for it
\* (it was delivered before) changes nothing: the deals, their counts
\* included, are as before
C27_RedeliveryChangesNothing ==
    [][(/\ messages' = messages
        /\ customers' = customers
        /\ telegram' = telegram
        /\ DOMAIN deals' = DOMAIN deals
        /\ \A e \in DOMAIN deals : SameButCount(e))
       => deals' = deals]_vars

\* the same message has been delivered twice: it is stored once and is the
\* last message of its deal, which counts two messages
DeliveredTwice ==
    \E e \in DOMAIN deals :
      /\ deals[e].total_messages = 2
      /\ Cardinality({ k \in DOMAIN messages : k[1] = e }) = 1
      /\ << e, deals[e].last_message_id >> \in DOMAIN messages

(***************************************************************************)
(* Properties of overlapping, crashed and failing attempts.                *)
(***************************************************************************)
\* t and u execute the engine at the same time
Overlap(t, u) == t # u /\ InEngine(t) /\ InEngine(u)

\* C28: two invocations execute the engine at the same time only after the
\* TTL of the lock elapsed under a running holder; and an invocation that
\* runs _get_or_create_sync_state while another executes the engine on a
\* row that is RUNNING (the newest such row) is handed that row, so that
\* both work on it
C28_OverlapOnSameRow ==
    /\ [](\A t, u \in Tasks : Overlap(t, u) => expiredLive)
    /\ [][\A t, u \in Tasks :
            (/\ t # u
             /\ InEngine(t)
             /\ syncStates[state[t].id].status = RUNNING
             /\ \A i \in 1..Len(syncStates) :
                   syncStates[i].status \in { PENDING, RUNNING }
                      => i <= state[t].id
             /\ pc[u] = "query" /\ Steps(u)) =>
               /\ pc'[u] = "setrunning"
               /\ state'[u].id = state[t].id
               /\ syncStates' = syncStates]_vars

\* two invocations execute the engine at the same time on the same row
C28_Witness ==
    \E t, u \in Tasks :
      /\ Overlap(t, u)
      /\ state[t].id = state[u].id
      /\ syncStates[state[t].id].status = RUNNING
      /\ expiredLive

\* row i is RUNNING and no invocation executes: its worker died
Abandoned(i) ==
    /\ i \in 1..Len(syncStates)
    /\ syncStates[i].status = RUNNING
    /\ \A t \in Tasks : ~ Live(t)
    /\ \E t \in Tasks : pc[t] = "crashed"

\* the TTL of the dead worker's lock has elapsed, an invocation (a new one or
\* a queued retry) is still to come and nothing fails any more
CanRecover(i) ==
    /\ Abandoned(i)
    /\ lock = NoLock
    /\ faults = 0
    /\ \E u \in Tasks : pc[u] \in { "idle", "retry" }

\* C29: the invocation that starts after the TTL of a dead worker's lock
\* elapsed takes the lock, is handed the abandoned RUNNING row and begins
\* its run at the cursor of that row; and with no further failure the row
\* becomes COMPLETED
C29_CrashedRunIsCompleted ==
    /\ [][\A u \in Tasks : \A i \in 1..NumTasks :
            (Abandoned(i) /\ lock = NoLock /\ Steps(u)) =>
               /\ pc[u] \in { "idle", "retry" }
               /\ pc'[u] = "query"
               /\ lock' = {u}]_vars
    /\ [][\A u \in Tasks :
            (/\ pc[u] = "query" /\ Steps(u)
             /\ ~ expiredLive
             /\ \E i \in 1..Len(syncStates) : syncStates[i].status = RUNNING)
              => /\ pc'[u] = "setrunning"
                 /\ syncStates[state'[u].id].status = RUNNING
                 /\ state'[u].cursor = syncStates[state'[u].id].cursor
                 /\ state'[u].processed_chats
                       = syncStates[state'[u].id].processed_chats
                 /\ syncStates' = syncStates]_vars
    /\ [][\A u \in Tasks :
            (pc[u] = "setrunning" /\ Steps(u)) =>
               /\ pc'[u] = "fetch"
               /\ cursor'[u] = state[u].cursor]_vars
    /\ \A i \in 1..NumTasks :
          CanRecover(i) ~> (/\ i \in 1..Len(syncStates)
                            /\ syncStates[i].status = COMPLETED)

\* an invocation has resumed the row of a dead worker at its persisted
\* cursor and completed it
C29_Witness ==
    \E u \in Tasks :
      /\ pc[u] = "release"
      /\ outcome[u] = "completed"
      /\ rerun[u] = "resumed"
      /\ syncStates[state[u].id].status = COMPLETED
      /\ syncStates[state[u].id].task_id # u
      /\ pc[syncStates[state[u].id].task_id] = "crashed"
      /\ syncStates[state[u].id].cursor # NoCursor
      /\ state[u].processed_chats > 0

\* C30: an attempt that fails at run level is re-queued while fewer than
\* MAX_RETRIES retries were made and not after; so a task makes at most
\* MAX_RETRIES retries after its first attempt, and once the last of them
\* has failed the task is over for good and its exit left the lock free
C30_RetriesAreBounded ==
    /\ [](\A t \in Tasks :
            /\ retries[t] \in 0..MAX_RETRIES
            /\ pc[t] = "retry" => retries[t] \in 1..MAX_RETRIES
            /\ pc[t] = "gaveup" => retries[t] = MAX_RETRIES
            /\ pc[t] = "gaveup" => t \notin lock)
    /\ [][\A t \in Tasks :
            (pc[t] = "except" /\ Steps(t)) =>
               /\ pc'[t] = "release"
               /\ IF retries[t] < MAX_RETRIES
                  THEN /\ retries'[t] = retries[t] + 1
                       /\ outcome'[t] = "retry"
                  ELSE /\ retries'[t] = retries[t]
                       /\ outcome'[t] = "gaveup"]_vars
    /\ [][\A t \in Tasks :
            (pc[t] = "release" /\ outcome[t] = "gaveup" /\ Steps(t)) =>
               /\ pc'[t] = "gaveup"
               /\ lock' = NoLock]_vars
    /\ [][\A t \in Tasks :
            pc[t] = "gaveup" => /\ pc'[t] = "gaveup"
                                /\ retries'[t] = retries[t]]_vars
    /\ [][\A t \in Tasks :
            retries'[t] # retries[t] => pc[t] = "except"]_vars

\* a task has failed its first attempt and MAX_RETRIES retries, has given
\* up, and the lock is free
C30_Witness ==
    \E t \in Tasks :
      /\ pc[t] = "gaveup"
      /\ retries[t] = MAX_RETRIES
      /\ lock = NoLock

(***************************************************************************)
(* Properties of whole runs.                                               *)
(***************************************************************************)

\* every record of the source has a COMPLETE deal
SourceCovered ==
    \A e \in SourceIds :
       e \in DOMAIN deals /\ deals[e].sync_status = DEAL_COMPLETE

\* no run was given a cutoff
NoCutoff ==
    \A j \in 1..Len(syncStates) : syncStates[j].max_date = NoDate

\* C31: from an empty index and without cutoff or record-level failure,
\* once a run state is COMPLETED every record of the source has a COMPLETE
\* deal, whatever crashes, failed fetches, retries and resumptions came
\* before (no lock expired under a running holder)
C31_CompletedRunCoversSource ==
    (/\ NoCutoff
     /\ ~ expiredLive
     /\ \E i \in 1..Len(syncStates) : syncStates[i].status = COMPLETED)
       => SourceCovered

\* the same of a run that nothing interrupted: the only row there is
UninterruptedRunCoversSource ==
    (/\ NoCutoff
     /\ Len(syncStates) = 1
     /\ syncStates[1].status = COMPLETED
     /\ \A t \in Tasks : pc[t] # "crashed" /\ retries[t] = 0
     /\ ~ expiredLive)
       => SourceCovered

\* a run without cutoff is COMPLETED after an earlier attempt crashed or
\* failed, and a record of the source has no deal
CompletedWithoutRecord ==
    /\ NoCutoff
    /\ ~ expiredLive
    /\ \E i \in 1..Len(syncStates) : syncStates[i].status = COMPLETED
    /\ \E t \in Tasks : pc[t] = "crashed" \/ retries[t] > 0
    /\ \E e \in SourceIds : e \notin DOMAIN deals

\* the only run there has been is COMPLETED, had cutoff d, and nothing
\* interrupted it
OnlyRunCompleted(d) ==
    /\ Len(syncStates) = 1
    /\ syncStates[1].status = COMPLETED
    /\ syncStates[1].max_date = d
    /\ \A t \in Tasks : pc[t] # "crashed" /\ retries[t] = 0
    /\ ~ expiredLive

\* the records of the source that precede the first one older than d
BeforeCutoff(d) ==
    { i \in 0..(client.total_chats - 1) :
        \A j \in 0..i : GenerateChat(j).last_message.created_at >= d[1] }

DealAsFound(t) ==
    LET ext == CurrentChat(t).external_id
    IN  IF existing_deal[t] = NoDeal
        THEN ext \notin DOMAIN deals
        ELSE /\ ext \in DOMAIN deals
             /\ deals[ext].customer = existing_deal[t].customer
             /\ deals[ext].last_message_id = existing_deal[t].last_message_id
             /\ deals[ext].last_message_at = existing_deal[t].last_message_at
             /\ deals[ext].total_messages = existing_deal[t].total_messages

Processed == [ i \in 1..Len(syncStates) |-> syncStates[i].processed_chats ]

\* the column changes by the increment of one record that completed, and by
\* nothing else; an invocation that resumes a row counts on from its value
CountsCompletedRecords ==
    /\ \A i \in 1..Len(syncStates) :
          Processed'[i] # Processed[i] =>
             /\ Processed'[i] = Processed[i] + 1
             /\ \E t \in Tasks :
                  /\ pc[t] = "increment" /\ Steps(t)
                  /\ state[t].id = i
                  /\ deals[CurrentChat(t).external_id].sync_status
                        = DEAL_COMPLETE
    /\ \A t \in Tasks :
          (pc[t] = "increment" /\ Steps(t)) =>
             Processed'[state[t].id] = Processed[state[t].id] + 1
    /\ \A t \in Tasks :
          (pc[t] = "query" /\ Steps(t) /\ pc'[t] = "setrunning") =>
             state'[t].processed_chats = Processed[state'[t].id]

\* C34: processed_chats of a run state goes up by one for each record whose
\* protocol completes, is left alone by a record that stops the run or
\* fails, never goes down, and is carried over by a resumption
C34_ProcessedCount == [][CountsCompletedRecords]_vars

\* the same while no lock has expired under a running holder
ProcessedCountWhileLocked ==
    [][~ expiredLive' => CountsCompletedRecords]_vars

\* a resumed run has counted a record on top of the count it found
ProcessedCountResumed ==
    \E t \in Tasks :
      /\ rerun[t] = "resumed"
      /\ InEngine(t)
      /\ state[t].processed_chats >= 2
      /\ syncStates[state[t].id].processed_chats = state[t].processed_chats
      /\ syncStates[state[t].id].task_id # t
      /\ ~ expiredLive

\* the row counts fewer records than it did before
ProcessedCountLowered ==
    \E t \in Tasks :
      /\ InEngine(t)
      /\ pc[t] = "increment"
      /\ syncStates[state[t].id].processed_chats > state[t].processed_chats + 1

(***************************************************************************)
(* Properties of the lock release.                                         *)
(***************************************************************************)

\* C35: the release of an attempt removes the lock only if that attempt
\* holds it: when the key is another invocation's by now, the release
\* leaves it in place
C35_ReleaseOnlyByHolder ==
    [][\A t \in Tasks :
          (pc[t] = "release" /\ Steps(t) /\ lock # {t}) => lock' = lock]_vars

\* an attempt that is not the holder has released: the invocation that took
\* the lock after the expiry is still running and the key is gone, so
\* cache.add of another invocation would succeed
RunningWithoutLock ==
    \E t, u \in Tasks :
      /\ Exited(t)
      /\ InEngine(u)
      /\ lock = NoLock
      /\ expiredLive

\* the exit of the attempt that holds the lock removes it, and that is the
\* only release there is while no lock expired under a running holder
ReleaseByHolderWhileLocked ==
    [][\A t \in Tasks :
          (pc[t] = "release" /\ Steps(t) /\ ~ expiredLive) =>
             lock = {t} /\ lock' = NoLock]_vars

(***************************************************************************)
(* Properties of the deal table under both writers.                        *)
(***************************************************************************)

\* C36: whatever the sync task and the update handlers have done, a deal
\* with sync_status COMPLETE has a customer, which is a row of the customer
\* table, so DealManager.complete and the listing of the view select the
\* same deals
C36_CompleteHasCustomer ==
    /\ \A e \in CompleteDeals :
          /\ deals[e].customer # NoKey
          /\ deals[e].customer \in DOMAIN customers
    /\ CompleteDeals = DealListing

\* the table holds a COMPLETE deal written by the sync task and one written
\* by the message handler
C36_Witness ==
    /\ \E e \in SourceIds : e \in CompleteDeals
    /\ \E c \in TgConnections \ { NoKey }, chat \in TgChats :
          TgDealId(chat, c) \in CompleteDeals
    /\ \E t \in Tasks : pc[t] = "completed"

\* the messages stored under the external_id of a deal
StoredMessages(e) == { k \in DOMAIN messages : k[1] = e }

\* no invocation is inside the protocol of a record, and none was killed
BetweenRecords ==
    \A t \in Tasks : pc[t] \notin AtomicPcs \cup { "handler", "crashed" }

\* C37: once the operations of the engine are over, failed records
\* included, total_messages of every COMPLETE deal is the number of
\* messages stored under its external_id
C37_CountMatchesStore ==
    BetweenRecords =>
       \A e \in CompleteDeals :
          deals[e].total_messages = Cardinality(StoredMessages(e))

\* a deal that held one message was left by a first run whose only record
\* failed, and a second run has synced the record: two messages are stored
\* and counted
C37_Witness ==
    /\ BetweenRecords
    /\ ~ expiredLive
    /\ NoCutoff
    /\ client.total_chats = 1
    /\ Len(syncStates) = 2
    /\ syncStates[1].status = COMPLETED /\ syncStates[1].processed_chats = 0
    /\ syncStates[2].status = COMPLETED /\ syncStates[2].processed_chats = 1
    /\ \E e \in CompleteDeals :
         /\ deals[e].total_messages = 2
         /\ Cardinality(StoredMessages(e)) = 2

\* a worker was killed between the document write and the commit: the deal
\* is COMPLETE as before and counts one message of the two stored
CrashLeavesUncountedMessage ==
    /\ \A t \in Tasks : ~ Live(t)
    /\ \E e \in CompleteDeals :
         deals[e].total_messages < Cardinality(StoredMessages(e))

(***************************************************************************)
(* Properties of termination.                                              *)
(***************************************************************************)

\* the attempt of t has returned with its run state COMPLETED
EndedCompleted(t) ==
    /\ pc[t] = "completed"
    /\ \E i \in 1..Len(syncStates) : syncStates[i].status = COMPLETED

\* C38: with no failed fetch, an attempt that entered the run loop, at
\* whatever cursor, with whatever cutoff and index, leaves it after finitely
\* many fetches and ends with its run state COMPLETED (unless its worker is
\* killed)
C38_RunTerminatesCompleted ==
    \A t \in Tasks :
       (pc[t] = "fetch") ~> (EndedCompleted(t) \/ pc[t] = "crashed")

\* the same of the attempts whose max_date argument is absent or carries a
\* UTC offset
RunTerminatesWithAwareCutoff ==
    \A t \in Tasks :
       (pc[t] = "fetch" /\ max_date[t].kind # "naive" /\ retries[t] = 0)
          ~> (EndedCompleted(t) \/ pc[t] = "crashed")

\* a task given max_date without a UTC offset has given up, its run state
\* FAILED with the TypeError of the comparison, and no fetch ever failed
GaveUpOnNaiveCutoff ==
    \E t \in Tasks :
      /\ pc[t] = "gaveup"
      /\ max_date[t].kind = "naive"
      /\ \E i \in 1..Len(syncStates) :
           /\ syncStates[i].task_id = t
           /\ syncStates[i].status = FAILED
           /\ syncStates[i].error_message = "TypeError"

(***************************************************************************)
(* Properties of the mock source.                                          *)
(***************************************************************************)

\* C39: following next_cursor from the empty cursor yields the records of
\* the source once each in index order; every page before the last has
\* has_more and a next_cursor, the last has neither; an encoded page number
\* decodes to itself, and the empty cursor and every cursor whose decoding
\* raises are read as page 0
C39_PaginationAndCursorCodec ==
    /\ walk.visited = [ k \in 1..Len(walk.visited) |->
                           GenerateChat(k - 1).external_id ]
    /\ Len(walk.visited) <= client.total_chats
    /\ \A i \in 1..Len(walk.pages) :
          IF i < Len(walk.pages) \/ walk.more
          THEN /\ walk.pages[i].has_more
               /\ walk.pages[i].next_cursor = EncodeCursor(i)
               /\ walk.pages[i].size = client.page_size
          ELSE /\ ~ walk.pages[i].has_more
               /\ walk.pages[i].next_cursor = NoCursor
    /\ (walk.pages # << >> /\ ~ walk.more) =>
          /\ Len(walk.visited) = client.total_chats
          /\ Len(walk.pages) = NumPages
    /\ Len(walk.probe) = 3 => walk.probe[2] = walk.probe[3]
    /\ Len(walk.probe) = 2 =>
          /\ walk.probe[1] = NoCursor => walk.probe[2] = 0
          /\ B64Decode(walk.probe[1]) = << -1 >> => walk.probe[2] = 0
          /\ ParseInt(B64Decode(walk.probe[1])) = << >> => walk.probe[2] = 0

\* the caller has got the last of several pages of a source whose last page
\* is not full, and page number 10 has been encoded and decoded
C39_Witness ==
    /\ ~ walk.more
    /\ Len(walk.pages) >= 2
    /\ walk.pages[Len(walk.pages)].size < client.page_size
    /\ Len(walk.visited) = client.total_chats
    /\ Len(walk.probe) = 3 /\ walk.probe[3] = 10

\* a cursor that does not decode has been read as page 0
UndecodableReadAsZero ==
    /\ Len(walk.probe) = 2
    /\ walk.probe[1] # NoCursor
    /\ B64Decode(walk.probe[1]) = << -1 >>
    /\ walk.probe[2] = 0

\* a cursor that no page number encodes to decodes all the same: white
\* space, a sign or skipped characters do not make the decoding raise
OddCursorDecodes ==
    /\ Len(walk.probe) = 2
    /\ walk.probe[2] # 0
    /\ walk.probe[1] # EncodeCursor(walk.probe[2])

=============================================================================
